---- MODULE Spec2Model ----
(***************************************************************************)
(* Arbitrage detection-and-validation pipeline of the enhanced bot         *)
(* (src/unnamed/part_000): price collection through the CoinGecko and      *)
(* DEXScreener adapters, analyzeArbitrageOpportunities, the                *)
(* EmergencyAnomalyFilter and the published list currentOpportunities.     *)
(*                                                                         *)
(* Conventions.                                                            *)
(*  - A JavaScript string is a sequence of one-character strings, so that  *)
(*    toLowerCase, toUpperCase, includes and split are computed.           *)
(*  - A price is an integer number of thousandths of a dollar (1.001 USD   *)
(*    is 1001); a volume or a liquidity is an integer number of dollars.   *)
(*  - A derived number (profitPercentage, netProfit, ...) is an exact      *)
(*    rational [n, d] in lowest terms with d > 0; [1,0] is Infinity,       *)
(*    [-1,0] is -Infinity and [0,0] is NaN.  The arithmetic is the real    *)
(*    arithmetic the double computation approximates; the quotes of the    *)
(*    input sets below lie off the values where rounding would decide a    *)
(*    comparison of the code differently (a spread of exactly 0.1%, say),  *)
(*    and DeviationExceeds states the peg bound as the doubles compute it. *)
(*  - An exception is a predicate: analyzeArbitrageOpportunitiesThrows     *)
(*    says that the call raises, and the handlers branch on it as their    *)
(*    try/catch does.                                                      *)
(*                                                                         *)
(* Behaviours.  Next is a session of 'collect prices' commands with the    *)
(* monitoring switched off, NextMonitoring adds the monitoring loop, and   *)
(* NextBatches follows one call of getDEXPrices request by request.        *)
(* NextLoop lets the passes of the loop, of its timers and of the command  *)
(* overlap, and NextRequests lets a request of getDEXPrices time out or    *)
(* lose its connection in the middle of the response.                      *)
(***************************************************************************)
EXTENDS Integers, Sequences, FiniteSets, TLC

(***************************************************************************)
(* Strings                                                                 *)
(***************************************************************************)
UpperChars == <<"A","B","C","D","E","F","G","H","I","J","K","L","M",
                "N","O","P","Q","R","S","T","U","V","W","X","Y","Z">>

LowerChars == <<"a","b","c","d","e","f","g","h","i","j","k","l","m",
                "n","o","p","q","r","s","t","u","v","w","x","y","z">>

LowerChar(c) ==
  IF \E i \in 1..26 : UpperChars[i] = c
    THEN LowerChars[CHOOSE i \in 1..26 : UpperChars[i] = c]
    ELSE c

UpperChar(c) ==
  IF \E i \in 1..26 : LowerChars[i] = c
    THEN UpperChars[CHOOSE i \in 1..26 : LowerChars[i] = c]
    ELSE c

toLowerCase(s) == [i \in 1..Len(s) |-> LowerChar(s[i])]

toUpperCase(s) == [i \in 1..Len(s) |-> UpperChar(s[i])]

\* String.prototype.includes
includes(s, sub) ==
  \E i \in 0..(Len(s) - Len(sub)) : SubSeq(s, i + 1, i + Len(sub)) = sub

\* s.split('/')[0]: the part of s before the first '/'
RECURSIVE splitFirst(_)
splitFirst(s) ==
  IF s = <<>> \/ Head(s) = "/" THEN <<>>
  ELSE <<Head(s)>> \o splitFirst(Tail(s))

(***************************************************************************)
(* Numbers                                                                 *)
(***************************************************************************)
Abs(x) == IF x < 0 THEN -x ELSE x

RECURSIVE GCD(_, _)
GCD(a, b) == IF b = 0 THEN a ELSE GCD(b, a % b)

\* the number n/d
Rat(n, d) ==
  IF d = 0 THEN [n |-> IF n > 0 THEN 1 ELSE IF n < 0 THEN -1 ELSE 0, d |-> 0]
  ELSE LET s == IF d < 0 THEN -1 ELSE 1
           g == GCD(Abs(n), Abs(d))
       IN  [n |-> (s * n) \div g, d |-> (s * d) \div g]

IsNaN(a) == a.d = 0 /\ a.n = 0

IsFiniteRat(a) == a.d > 0

InfSign(a) == IF a.d = 0 THEN a.n ELSE 0

\* a < b, false when either is NaN
RLt(a, b) ==
  /\ ~IsNaN(a)
  /\ ~IsNaN(b)
  /\ IF a.d = 0 \/ b.d = 0 THEN InfSign(a) < InfSign(b)
     ELSE a.n * b.d < b.n * a.d

RGt(a, b) == RLt(b, a)

\* a <= b, false when either is NaN
RLe(a, b) ==
  /\ ~IsNaN(a)
  /\ ~IsNaN(b)
  /\ IF a.d = 0 \/ b.d = 0 THEN InfSign(a) <= InfSign(b)
     ELSE a.n * b.d <= b.n * a.d

RGe(a, b) == RLe(b, a)

\* a - b
RSub(a, b) ==
  IF IsNaN(a) \/ IsNaN(b) THEN Rat(0, 0)
  ELSE IF a.d = 0 /\ b.d = 0 THEN Rat(a.n - b.n, 0)
  ELSE IF a.d = 0 THEN a
  ELSE IF b.d = 0 THEN Rat(-b.n, 0)
  ELSE Rat(a.n * b.d - b.n * a.d, a.d * b.d)

\* a * k and a / k for an integer k > 0
RMulInt(a, k) == IF a.d = 0 THEN a ELSE Rat(a.n * k, a.d)

RDivInt(a, k) == IF a.d = 0 THEN a ELSE Rat(a.n, a.d * k)

(***************************************************************************)
(* EnhancedPriceRanges                                                     *)
(***************************************************************************)
EXTENDED_PRICE_RANGES == <<
     [key |-> <<"D","A","I">>, min |-> 900, max |-> 1100, type |-> "stablecoin"],
     [key |-> <<"U","S","D","C">>, min |-> 900, max |-> 1100, type |-> "stablecoin"],
     [key |-> <<"U","S","D","T">>, min |-> 900, max |-> 1100, type |-> "stablecoin"],
     [key |-> <<"W","B","T","C">>, min |-> 40000000, max |-> 200000000, type |-> "bitcoin-pegged"],
     [key |-> <<"E","T","H">>, min |-> 1500000, max |-> 15000000, type |-> "major-crypto"],
     [key |-> <<"E","T","H","E","R","E","U","M">>, min |-> 1500000, max |-> 15000000, type |-> "major-crypto"],
     [key |-> <<"B","I","T","C","O","I","N">>, min |-> 40000000, max |-> 200000000, type |-> "bitcoin-pegged"],
     [key |-> <<"L","I","N","K">>, min |-> 5000, max |-> 100000, type |-> "defi"],
     [key |-> <<"C","H","A","I","N","L","I","N","K">>, min |-> 5000, max |-> 100000, type |-> "defi"],
     [key |-> <<"U","N","I">>, min |-> 3000, max |-> 50000, type |-> "defi"],
     [key |-> <<"U","N","I","S","W","A","P">>, min |-> 3000, max |-> 50000, type |-> "defi"],
     [key |-> <<"A","A","V","E">>, min |-> 50000, max |-> 1000000, type |-> "defi"],
     [key |-> <<"M","A","T","I","C">>, min |-> 300, max |-> 10000, type |-> "layer2"],
     [key |-> <<"P","O","L","Y","G","O","N">>, min |-> 300, max |-> 10000, type |-> "layer2"],
     [key |-> <<"S","O","L">>, min |-> 10000, max |-> 500000, type |-> "layer1"],
     [key |-> <<"S","O","L","A","N","A">>, min |-> 10000, max |-> 500000, type |-> "layer1"],
     [key |-> <<"A","D","A">>, min |-> 100, max |-> 5000, type |-> "layer1"],
     [key |-> <<"C","A","R","D","A","N","O">>, min |-> 100, max |-> 5000, type |-> "layer1"],
     [key |-> <<"A","V","A","X">>, min |-> 8000, max |-> 200000, type |-> "layer1"],
     [key |-> <<"A","V","A","L","A","N","C","H","E">>, min |-> 8000, max |-> 200000, type |-> "layer1"],
     [key |-> <<"C","O","M","P">>, min |-> 30000, max |-> 800000, type |-> "defi"],
     [key |-> <<"M","K","R">>, min |-> 500000, max |-> 5000000, type |-> "defi"],
     [key |-> <<"M","A","K","E","R">>, min |-> 500000, max |-> 5000000, type |-> "defi"],
     [key |-> <<"G","R","T">>, min |-> 50, max |-> 3000, type |-> "infrastructure"],
     [key |-> <<"S","N","X">>, min |-> 1000, max |-> 50000, type |-> "defi"],
     [key |-> <<"C","R","V">>, min |-> 200, max |-> 10000, type |-> "defi"],
     [key |-> <<"S","U","S","H","I">>, min |-> 300, max |-> 15000, type |-> "defi"],
     [key |-> <<"C","A","K","E">>, min |-> 1000, max |-> 30000, type |-> "defi"],
     [key |-> <<"A","R","B">>, min |-> 500, max |-> 20000, type |-> "layer2"],
     [key |-> <<"O","P">>, min |-> 1000, max |-> 50000, type |-> "layer2"]
>>

\* the value null of getPriceRange
NoRange == [key |-> <<>>, min |-> 0, max |-> 0, type |-> "null"]

\* the table entry of the upper-cased token, or null
getPriceRange(token) ==
  LET normalizedToken == toUpperCase(token)
  IN  Head(SelectSeq(EXTENDED_PRICE_RANGES, LAMBDA r : r.key = normalizedToken)
           \o <<NoRange>>)

isValidPrice(token, price) ==
  LET range == getPriceRange(token)
  IN  IF range = NoRange THEN TRUE
      ELSE price >= range.min /\ price <= range.max

(***************************************************************************)
(* EmergencyAnomalyFilter                                                  *)
(***************************************************************************)
UNRELIABLE_SOURCES == <<
     <<"p","u","l","s","e","x">>,
     <<"p","u","l","s","e","X">>,
     <<"p","o","w","s","w","a","p">>,
     <<"u","n","k","n","o","w","n","_","d","e","x">>,
     <<"u","n","k","n","o","w","n">>
>>

\* process.env.MAX_PROFIT_RATE || "50"
MAX_PROFIT_RATE == 50

isValidNumber(value) == value > 0

validatePriceRange(token, buyPrice, sellPrice) ==
  LET range == getPriceRange(token)
  IN  IF range = NoRange THEN TRUE
      ELSE IF ~isValidPrice(token, buyPrice) THEN FALSE
      ELSE IF ~isValidPrice(token, sellPrice) THEN FALSE
      ELSE TRUE

\* the global MAX_PROFIT_RATE for every class
maxProfitRates_global(type) == MAX_PROFIT_RATE

\* maxProfitRates[type] || MAX_PROFIT_RATE
maxProfitRates(type) ==
  CASE type = "stablecoin"     -> 5
    [] type = "major-crypto"   -> 25
    [] type = "bitcoin-pegged" -> 25
    [] type = "defi"           -> 50
    [] type = "layer1"         -> 100
    [] type = "layer2"         -> 100
    [] type = "infrastructure" -> 150
    [] type = "altcoin"        -> 200
    [] OTHER                   -> MAX_PROFIT_RATE

validateProfitRate(opportunity) ==
  LET range   == getPriceRange(opportunity.token)
      maxRate == IF range # NoRange THEN maxProfitRates(range.type)
                 ELSE MAX_PROFIT_RATE
  IN  ~RGt(opportunity.profitPercentage, Rat(maxRate, 1))

\* validateSources without the toLowerCase of the two names
validateSources_caseSensitive(buyExchange, sellExchange) ==
  IF \E i \in 1..Len(UNRELIABLE_SOURCES) :
        includes(buyExchange, UNRELIABLE_SOURCES[i]) THEN FALSE
  ELSE IF \E i \in 1..Len(UNRELIABLE_SOURCES) :
        includes(sellExchange, UNRELIABLE_SOURCES[i]) THEN FALSE
  ELSE IF buyExchange = sellExchange THEN FALSE
  ELSE TRUE

validateSources(buyExchange, sellExchange) ==
  LET normalizedBuySource  == toLowerCase(buyExchange)
      normalizedSellSource == toLowerCase(sellExchange)
  IN  IF \E i \in 1..Len(UNRELIABLE_SOURCES) :
            includes(normalizedBuySource, UNRELIABLE_SOURCES[i]) THEN FALSE
      ELSE IF \E i \in 1..Len(UNRELIABLE_SOURCES) :
            includes(normalizedSellSource, UNRELIABLE_SOURCES[i]) THEN FALSE
      ELSE IF normalizedBuySource = normalizedSellSource THEN FALSE
      ELSE TRUE

stablecoins == <<
     <<"D","A","I">>, <<"U","S","D","C">>, <<"U","S","D","T">>,
     <<"B","U","S","D">>, <<"F","R","A","X">>
>>

isStablecoin(token) ==
  \E i \in 1..Len(stablecoins) : stablecoins[i] = toUpperCase(token)

\* a deviation bound of 10% instead of 5%
DeviationExceeds_tenPercent(price) == Abs(price - 1000) >= 100

\* Math.abs(price - 1.0) / 1.0 > 0.05.  On the thousandth grid the double
\* difference at 0.950 and 1.050 is 0.05000000000000004, which exceeds the
\* double 0.05, so the boundary itself counts as a deviation.
DeviationExceeds(price) == Abs(price - 1000) >= 50

validateStablecoin(opportunity) ==
  LET token == toUpperCase(opportunity.token)
  IN  IF ~isStablecoin(token) THEN TRUE
      ELSE IF DeviationExceeds(opportunity.buyPrice) THEN FALSE
      ELSE IF DeviationExceeds(opportunity.sellPrice) THEN FALSE
      ELSE TRUE

\* reliability[source.toLowerCase()] || 5
getSourceReliability(source) ==
  LET s == toLowerCase(source)
      v == CASE s = <<"c","o","i","n","g","e","c","k","o">> -> 15
             [] s = <<"c","o","i","n","g","e","c","k","o","_","a","v","e","r","a","g","e">> -> 15
             [] s = <<"b","i","n","a","n","c","e">> -> 12
             [] s = <<"c","o","i","n","b","a","s","e">> -> 12
             [] s = <<"u","n","i","s","w","a","p">> -> 10
             [] s = <<"u","n","i","s","w","a","p","_","v","3">> -> 10
             [] s = <<"s","u","s","h","i","s","w","a","p">> -> 8
             [] s = <<"c","u","r","v","e">> -> 8
             [] s = <<"p","a","n","c","a","k","e","s","w","a","p">> -> 6
             [] s = <<"q","u","i","c","k","s","w","a","p">> -> 5
             [] s = <<"p","u","l","s","e","x">> -> 0
             [] s = <<"p","o","w","s","w","a","p">> -> 0
             [] OTHER -> 0
  IN  IF v = 0 THEN 5 ELSE v

\* typeBonus[tokenType] || 0
typeBonus(tokenType) ==
  CASE tokenType = "stablecoin"     -> 20
    [] tokenType = "major-crypto"   -> 15
    [] tokenType = "bitcoin-pegged" -> 15
    [] tokenType = "defi"           -> 10
    [] tokenType = "layer1"         -> 8
    [] tokenType = "layer2"         -> 8
    [] tokenType = "infrastructure" -> 5
    [] OTHER                        -> 0

Min(a, b) == IF a < b THEN a ELSE b

Max(a, b) == IF a > b THEN a ELSE b

\* profitScore with the full 40 points up to the upper limit of the class
profitScore_wideBand(tokenType, pct) ==
  IF tokenType = "stablecoin" THEN
       IF RLe(pct, Rat(5, 1)) THEN 40 ELSE 0
  ELSE IF tokenType = "major-crypto" \/ tokenType = "bitcoin-pegged" THEN
       IF RLe(pct, Rat(25, 1)) THEN 40 ELSE 0
  ELSE IF RLe(pct, Rat(50, 1)) THEN 40 ELSE 0

\* the profit-rate part of calculateScore without the 40-point bands
profitScore_noSweetSpot(tokenType, pct) ==
  IF tokenType = "stablecoin" THEN
       IF RLe(pct, Rat(5, 1)) THEN 20 ELSE 0
  ELSE IF tokenType = "major-crypto" \/ tokenType = "bitcoin-pegged" THEN
       IF RLe(pct, Rat(25, 1)) THEN 20 ELSE 0
  ELSE IF RLe(pct, Rat(50, 1)) THEN 20 ELSE 0

\* the profit-rate part of calculateScore
profitScore(tokenType, pct) ==
  IF tokenType = "stablecoin" THEN
       IF RGe(pct, Rat(1, 2)) /\ RLe(pct, Rat(2, 1)) THEN 40
       ELSE IF RLe(pct, Rat(5, 1)) THEN 20 ELSE 0
  ELSE IF tokenType = "major-crypto" \/ tokenType = "bitcoin-pegged" THEN
       IF RGe(pct, Rat(1, 1)) /\ RLe(pct, Rat(10, 1)) THEN 40
       ELSE IF RLe(pct, Rat(25, 1)) THEN 20 ELSE 0
  ELSE IF RGe(pct, Rat(2, 1)) /\ RLe(pct, Rat(15, 1)) THEN 40
       ELSE IF RLe(pct, Rat(50, 1)) THEN 20 ELSE 0

\* calculateScore with a bonus for the confidence the candidate carries
calculateScore_withConfidence(opportunity) ==
  LET range     == getPriceRange(opportunity.token)
      tokenType == IF range # NoRange THEN range.type ELSE "unknown"
      sourceReliability == getSourceReliability(opportunity.buyExchange)
                           + getSourceReliability(opportunity.sellExchange)
      confidenceBonus == IF opportunity.confidence = "high" THEN 10
                         ELSE IF opportunity.confidence = "medium" THEN 5
                         ELSE 0
      score == profitScore(tokenType, opportunity.profitPercentage)
               + sourceReliability + typeBonus(tokenType) + confidenceBonus
  IN  Max(0, Min(100, score))

calculateScore(opportunity) ==
  LET range     == getPriceRange(opportunity.token)
      tokenType == IF range # NoRange THEN range.type ELSE "unknown"
      sourceReliability == getSourceReliability(opportunity.buyExchange)
                           + getSourceReliability(opportunity.sellExchange)
      score == profitScore(tokenType, opportunity.profitPercentage)
               + sourceReliability + typeBonus(tokenType)
  IN  Max(0, Min(100, score))

\* validateOpportunity with the profit-rate check ahead of the price-range
\* check
validateOpportunity_profitFirst(opportunity) ==
  LET reject(why) == [isValid |-> FALSE, reason |-> why, score |-> 0,
                      recommendation |-> "REJECT"]
      score == calculateScore(opportunity)
  IN  IF ~isValidNumber(opportunity.buyPrice)
           \/ ~isValidNumber(opportunity.sellPrice)
        THEN reject("Invalid price data")
      ELSE IF ~validateProfitRate(opportunity)
        THEN reject("Invalid profit rate")
      ELSE IF ~validatePriceRange(opportunity.token, opportunity.buyPrice,
                                  opportunity.sellPrice)
        THEN reject("Price out of range")
      ELSE IF ~validateSources(opportunity.buyExchange, opportunity.sellExchange)
        THEN reject("Unreliable source")
      ELSE IF isStablecoin(opportunity.token) /\ ~validateStablecoin(opportunity)
        THEN reject("Stablecoin anomaly")
      ELSE IF score >= 70
        THEN [isValid |-> TRUE, reason |-> "Passed all validation checks",
              score |-> score, recommendation |-> "ACCEPT"]
      ELSE IF score >= 40
        THEN [isValid |-> FALSE,
              reason |-> "Moderate confidence, requires manual review",
              score |-> score, recommendation |-> "CAUTION"]
      ELSE [isValid |-> FALSE, reason |-> "Low confidence score",
            score |-> score, recommendation |-> "REJECT"]

\* validateOpportunity with isValid set for CAUTION as well
validateOpportunity_cautionValid(opportunity) ==
  LET reject(why) == [isValid |-> FALSE, reason |-> why, score |-> 0,
                      recommendation |-> "REJECT"]
      score == calculateScore(opportunity)
  IN  IF ~isValidNumber(opportunity.buyPrice)
           \/ ~isValidNumber(opportunity.sellPrice)
        THEN reject("Invalid price data")
      ELSE IF ~validatePriceRange(opportunity.token, opportunity.buyPrice,
                                  opportunity.sellPrice)
        THEN reject("Price out of range")
      ELSE IF ~validateProfitRate(opportunity)
        THEN reject("Invalid profit rate")
      ELSE IF ~validateSources(opportunity.buyExchange, opportunity.sellExchange)
        THEN reject("Unreliable source")
      ELSE IF isStablecoin(opportunity.token) /\ ~validateStablecoin(opportunity)
        THEN reject("Stablecoin anomaly")
      ELSE IF score >= 70
        THEN [isValid |-> TRUE, reason |-> "Passed all validation checks",
              score |-> score, recommendation |-> "ACCEPT"]
      ELSE IF score >= 40
        THEN [isValid |-> TRUE,
              reason |-> "Moderate confidence, requires manual review",
              score |-> score, recommendation |-> "CAUTION"]
      ELSE [isValid |-> FALSE, reason |-> "Low confidence score",
            score |-> score, recommendation |-> "REJECT"]

validateOpportunity(opportunity) ==
  LET reject(why) == [isValid |-> FALSE, reason |-> why, score |-> 0,
                      recommendation |-> "REJECT"]
      \* 6. Enhanced scoring
      scored(score) ==
        IF score >= 70
          THEN [isValid |-> TRUE, reason |-> "Passed all validation checks",
                score |-> score, recommendation |-> "ACCEPT"]
        ELSE IF score >= 40
          THEN [isValid |-> FALSE,
                reason |-> "Moderate confidence, requires manual review",
                score |-> score, recommendation |-> "CAUTION"]
        ELSE [isValid |-> FALSE, reason |-> "Low confidence score",
              score |-> score, recommendation |-> "REJECT"]
  IN  \* 1. Basic number validation
      IF ~isValidNumber(opportunity.buyPrice)
           \/ ~isValidNumber(opportunity.sellPrice)
        THEN reject("Invalid price data")
      \* 2. Enhanced price range validation
      ELSE IF ~validatePriceRange(opportunity.token, opportunity.buyPrice,
                                  opportunity.sellPrice)
        THEN reject("Price out of range")
      \* 3. Dynamic profit rate validation based on token type
      ELSE IF ~validateProfitRate(opportunity)
        THEN reject("Invalid profit rate")
      \* 4. Source reliability validation
      ELSE IF ~validateSources(opportunity.buyExchange, opportunity.sellExchange)
        THEN reject("Unreliable source")
      \* 5. Stablecoin special validation
      ELSE IF isStablecoin(opportunity.token) /\ ~validateStablecoin(opportunity)
        THEN reject("Stablecoin anomaly")
      ELSE CHOOSE result \in {scored(score) :
                                 score \in {calculateScore(opportunity)}} : TRUE

mapScoreToConfidence(score) ==
  IF score >= 70 THEN "high" ELSE IF score >= 40 THEN "medium" ELSE "low"

\* the list left as it is
sortByNetProfit_unsorted(opps) == opps

\* accepted.sort((a, b) => b.netProfit - a.netProfit): a stable sort,
\* descending on netProfit (a NaN difference compares as equal)
RECURSIVE sortByNetProfit(_)
sortByNetProfit(opps) ==
  IF opps = <<>> THEN <<>>
  ELSE LET n    == Len(opps)
           x    == opps[n]
           done == sortByNetProfit(SubSeq(opps, 1, n - 1))
           p    == Cardinality({i \in 1..Len(done) :
                                  ~RLt(done[i].netProfit, x.netProfit)})
       IN  SubSeq(done, 1, p) \o <<x>> \o SubSeq(done, p + 1, Len(done))

\* ((rejected / total) * 100).toFixed(1), as a number of tenths; NaN for 0/0
filterEfficiency(rejected, total) ==
  IF total = 0 THEN Rat(0, 0)
  ELSE Rat((rejected * 2000 + total) \div (2 * total), 10)

\* the lists accepted and rejected after the first k opportunities of the
\* loop of filterOpportunities
RECURSIVE filterLoop(_, _)
filterLoop(opportunities, k) ==
  IF k = 0 THEN [accepted |-> <<>>, rejected |-> <<>>]
  ELSE LET lists       == filterLoop(opportunities, k - 1)
           opportunity == opportunities[k]
           validation  == validateOpportunity(opportunity)
       IN  IF validation.isValid
             THEN [lists EXCEPT !.accepted =
                     Append(@, [opportunity EXCEPT !.confidence =
                                  mapScoreToConfidence(validation.score)])]
             ELSE [lists EXCEPT !.rejected = Append(@, opportunity)]

filterOpportunities(opportunities) ==
  LET lists == filterLoop(opportunities, Len(opportunities))
  IN  [accepted |-> sortByNetProfit(lists.accepted),
       rejected |-> lists.rejected,
       summary  |-> [total    |-> Len(opportunities),
                     accepted |-> Len(lists.accepted),
                     rejected |-> Len(lists.rejected),
                     filterEfficiency |->
                       filterEfficiency(Len(lists.rejected),
                                        Len(opportunities))]]

(***************************************************************************)
(* ArbitrageDataCollector: detection                                       *)
(***************************************************************************)
\* groupKey without toLowerCase()
groupKey_caseSensitive(data) == splitFirst(data.pair)

\* the group key of a quote: data.pair.split('/')[0].toLowerCase()
groupKey(data) == toLowerCase(splitFirst(data.pair))

\* the keys of tokenGroups, in insertion order
RECURSIVE tokenGroupKeys(_)
tokenGroupKeys(priceData) ==
  IF priceData = <<>> THEN <<>>
  ELSE LET n    == Len(priceData)
           done == tokenGroupKeys(SubSeq(priceData, 1, n - 1))
           k    == groupKey(priceData[n])
       IN  IF \E i \in 1..Len(done) : done[i] = k THEN done
           ELSE Append(done, k)

\* tokenGroups[token]
tokenGroup(priceData, token) ==
  LET F[k \in 0..Len(priceData)] ==
        IF k = 0 THEN <<>>
        ELSE IF groupKey(priceData[k]) = token
          THEN Append(F[k - 1], priceData[k])
          ELSE F[k - 1]
  IN  F[Len(priceData)]

\* prices.sort((a, b) => a.price - b.price): a stable sort, ascending
RECURSIVE sortByPrice(_)
sortByPrice(prices) ==
  IF prices = <<>> THEN <<>>
  ELSE LET n    == Len(prices)
           x    == prices[n]
           done == sortByPrice(SubSeq(prices, 1, n - 1))
           p    == Cardinality({i \in 1..Len(done) : done[i].price <= x.price})
       IN  SubSeq(done, 1, p) \o <<x>> \o SubSeq(done, p + 1, Len(done))

\* thresholds[range.type] || MIN_PROFIT_THRESHOLD
getMinProfitThreshold(token, cfg) ==
  LET range == getPriceRange(token)
  IN  IF range = NoRange THEN cfg.MIN_PROFIT_THRESHOLD
      ELSE CASE range.type = "stablecoin"     -> Rat(1, 10)
             [] range.type = "major-crypto"   -> Rat(1, 2)
             [] range.type = "bitcoin-pegged" -> Rat(1, 2)
             [] range.type = "defi"           -> Rat(1, 1)
             [] range.type = "layer1"         -> Rat(2, 1)
             [] range.type = "layer2"         -> Rat(2, 1)
             [] range.type = "infrastructure" -> Rat(3, 1)
             [] range.type = "altcoin"        -> Rat(5, 1)
             [] OTHER                         -> cfg.MIN_PROFIT_THRESHOLD

averageGasPrice == 30

gasLimit == 300000

ethPrice == 2500

\* (averageGasPrice * gasLimit * ethPrice) / 1e9
estimateGasCost ==
  RMulInt(Rat(averageGasPrice * gasLimit, 1000000000), ethPrice)

reputableExchanges == <<
     <<"u","n","i","s","w","a","p">>,
     <<"s","u","s","h","i","s","w","a","p">>,
     <<"p","a","n","c","a","k","e","s","w","a","p">>,
     <<"c","o","i","n","g","e","c","k","o","_","a","v","e","r","a","g","e">>,
     <<"c","u","r","v","e">>
>>

calculateConfidence(cheapest, mostExpensive, profitPercentage) ==
  LET profitPts == IF RGt(profitPercentage, Rat(5, 1)) THEN 3
                   ELSE IF RGt(profitPercentage, Rat(2, 1)) THEN 2
                   ELSE IF RGt(profitPercentage, Rat(1, 1)) THEN 1
                   ELSE 0
      volumePts == IF cheapest.volume > 100000 /\ mostExpensive.volume > 100000
                     THEN 2
                   ELSE IF cheapest.volume > 10000 /\ mostExpensive.volume > 10000
                     THEN 1
                   ELSE 0
      reputable(ex) == \E i \in 1..Len(reputableExchanges) :
                          includes(ex, reputableExchanges[i])
      exchangePts == IF reputable(cheapest.exchange)
                        /\ reputable(mostExpensive.exchange) THEN 1 ELSE 0
      score == profitPts + volumePts + exchangePts
  IN  IF score >= 5 THEN "high" ELSE IF score >= 3 THEN "medium" ELSE "low"

\* analyzeGroup without the test cheapest.exchange === mostExpensive.exchange
analyzeGroup_sameVenue(token, prices, cfg) ==
  IF Len(prices) < 2 THEN <<>>
  ELSE
    LET sortedPrices  == sortByPrice(prices)
        cheapest      == sortedPrices[1]
        mostExpensive == sortedPrices[Len(sortedPrices)]
        priceDifference  == mostExpensive.price - cheapest.price
        profitPercentage == Rat(priceDifference * 100, cheapest.price)
        minThreshold     == getMinProfitThreshold(token, cfg)
        estimatedGasCost == estimateGasCost
        potentialProfit  ==
          RDivInt(RMulInt(profitPercentage, cfg.TRADE_AMOUNT), 100)
        netProfit        == RSub(potentialProfit, estimatedGasCost)
    IN  IF ~RGe(profitPercentage, minThreshold) THEN <<>>
        ELSE IF ~RGt(netProfit, Rat(0, 1)) THEN <<>>
        ELSE << [token            |-> toUpperCase(token),
                 buyExchange      |-> cheapest.exchange,
                 sellExchange     |-> mostExpensive.exchange,
                 buyPrice         |-> cheapest.price,
                 sellPrice        |-> mostExpensive.price,
                 priceDifference  |-> priceDifference,
                 potentialProfit  |-> potentialProfit,
                 estimatedGasCost |-> estimatedGasCost,
                 netProfit        |-> netProfit,
                 profitPercentage |-> profitPercentage,
                 confidence       |-> calculateConfidence(cheapest,
                                        mostExpensive, profitPercentage)] >>

\* analyzeGroup without the test netProfit > 0
analyzeGroup_noNetCheck(token, prices, cfg) ==
  IF Len(prices) < 2 THEN <<>>
  ELSE
    LET sortedPrices  == sortByPrice(prices)
        cheapest      == sortedPrices[1]
        mostExpensive == sortedPrices[Len(sortedPrices)]
        priceDifference  == mostExpensive.price - cheapest.price
        profitPercentage == Rat(priceDifference * 100, cheapest.price)
        minThreshold     == getMinProfitThreshold(token, cfg)
        estimatedGasCost == estimateGasCost
        potentialProfit  ==
          RDivInt(RMulInt(profitPercentage, cfg.TRADE_AMOUNT), 100)
        netProfit        == RSub(potentialProfit, estimatedGasCost)
    IN  IF cheapest.exchange = mostExpensive.exchange THEN <<>>
        ELSE IF ~RGe(profitPercentage, minThreshold) THEN <<>>
        ELSE << [token            |-> toUpperCase(token),
                 buyExchange      |-> cheapest.exchange,
                 sellExchange     |-> mostExpensive.exchange,
                 buyPrice         |-> cheapest.price,
                 sellPrice        |-> mostExpensive.price,
                 priceDifference  |-> priceDifference,
                 potentialProfit  |-> potentialProfit,
                 estimatedGasCost |-> estimatedGasCost,
                 netProfit        |-> netProfit,
                 profitPercentage |-> profitPercentage,
                 confidence       |-> calculateConfidence(cheapest,
                                        mostExpensive, profitPercentage)] >>

\* the body of the loop over tokenGroups for one token: the sequence of the
\* opportunities pushed (none or one)
analyzeGroup(token, prices, cfg) ==
  IF Len(prices) < 2 THEN <<>>
  ELSE
    LET sortedPrices  == sortByPrice(prices)
        cheapest      == sortedPrices[1]
        mostExpensive == sortedPrices[Len(sortedPrices)]
        priceDifference  == mostExpensive.price - cheapest.price
        profitPercentage == Rat(priceDifference * 100, cheapest.price)
        minThreshold     == getMinProfitThreshold(token, cfg)
        estimatedGasCost == estimateGasCost
        potentialProfit  ==
          RDivInt(RMulInt(profitPercentage, cfg.TRADE_AMOUNT), 100)
        netProfit        == RSub(potentialProfit, estimatedGasCost)
    IN  IF cheapest.exchange = mostExpensive.exchange THEN <<>>
        ELSE IF ~RGe(profitPercentage, minThreshold) THEN <<>>
        ELSE IF ~RGt(netProfit, Rat(0, 1)) THEN <<>>
        ELSE << [token            |-> toUpperCase(token),
                 buyExchange      |-> cheapest.exchange,
                 sellExchange     |-> mostExpensive.exchange,
                 buyPrice         |-> cheapest.price,
                 sellPrice        |-> mostExpensive.price,
                 priceDifference  |-> priceDifference,
                 potentialProfit  |-> potentialProfit,
                 estimatedGasCost |-> estimatedGasCost,
                 netProfit        |-> netProfit,
                 profitPercentage |-> profitPercentage,
                 confidence       |-> calculateConfidence(cheapest,
                                        mostExpensive, profitPercentage)] >>

\* the list `opportunities` before the filter: the candidates
detectOpportunities(priceData, cfg) ==
  LET keys == tokenGroupKeys(priceData)
      F[k \in 0..Len(keys)] ==
        IF k = 0 THEN <<>>
        ELSE F[k - 1] \o analyzeGroup(keys[k], tokenGroup(priceData, keys[k]), cfg)
  IN  F[Len(keys)]

\* analyzeArbitrageOpportunities running the filter whatever
\* EMERGENCY_FILTER_ENABLED says
analyzeArbitrageOpportunities_alwaysFiltered(priceData, cfg) ==
  filterOpportunities(detectOpportunities(priceData, cfg)).accepted

\* analyzeArbitrageOpportunities returning the sorted candidates whatever
\* EMERGENCY_FILTER_ENABLED says
analyzeArbitrageOpportunities_unfiltered(priceData, cfg) ==
  sortByNetProfit(detectOpportunities(priceData, cfg))

analyzeArbitrageOpportunities(priceData, cfg) ==
  LET opportunities == detectOpportunities(priceData, cfg)
  IN  IF cfg.EMERGENCY_FILTER_ENABLED
        THEN filterOpportunities(opportunities).accepted
        ELSE sortByNetProfit(opportunities)

\* A dexId of a DEXScreener pair that is a JSON number and not a string: it
\* is truthy, so fetchDEXScreenerData copies it into the quote's exchange,
\* and .includes and .toLowerCase are not functions of it.
NotAString == <<"[number]">>

IsString(v) == v # NotAString

\* calculateConfidence raises a TypeError: cheapest.exchange.includes is
\* evaluated first, mostExpensive.exchange.includes only when the cheapest
\* venue is reputable
calculateConfidenceThrows(cheapest, mostExpensive) ==
  \/ ~IsString(cheapest.exchange)
  \/ /\ \E i \in 1..Len(reputableExchanges) :
          includes(cheapest.exchange, reputableExchanges[i])
     /\ ~IsString(mostExpensive.exchange)

\* the body of the loop over tokenGroups raises for this token: it reaches
\* opportunities.push and calculateConfidence raises
analyzeGroupThrows(token, prices, cfg) ==
  /\ analyzeGroup(token, prices, cfg) # <<>>
  /\ LET sortedPrices == sortByPrice(prices)
     IN  calculateConfidenceThrows(sortedPrices[1],
                                   sortedPrices[Len(sortedPrices)])

\* validateOpportunity raises a TypeError: the checks 1 to 3 pass and
\* validateSources calls toLowerCase on the two venues
validateOpportunityThrows(opportunity) ==
  /\ isValidNumber(opportunity.buyPrice)
  /\ isValidNumber(opportunity.sellPrice)
  /\ validatePriceRange(opportunity.token, opportunity.buyPrice,
                        opportunity.sellPrice)
  /\ validateProfitRate(opportunity)
  /\ \/ ~IsString(opportunity.buyExchange)
     \/ ~IsString(opportunity.sellExchange)

\* analyzeArbitrageOpportunities raising when the filter is handed an empty
\* list, as if the division 0 / 0 of the summary raised
analyzeArbitrageOpportunitiesThrows_emptyFilter(priceData, cfg) ==
  \/ /\ cfg.EMERGENCY_FILTER_ENABLED
     /\ detectOpportunities(priceData, cfg) = <<>>
  \/ \E k \in 1..Len(tokenGroupKeys(priceData)) :
       analyzeGroupThrows(tokenGroupKeys(priceData)[k],
         tokenGroup(priceData, tokenGroupKeys(priceData)[k]), cfg)

\* analyzeArbitrageOpportunities raises: nothing in it catches, so the
\* first group or the first candidate that raises ends the call.  Only a
\* venue that is not a string makes a call raise.
analyzeArbitrageOpportunitiesThrows(priceData, cfg) ==
  /\ \E i \in 1..Len(priceData) : ~IsString(priceData[i].exchange)
  /\ \/ \E k \in 1..Len(tokenGroupKeys(priceData)) :
          analyzeGroupThrows(tokenGroupKeys(priceData)[k],
            tokenGroup(priceData, tokenGroupKeys(priceData)[k]), cfg)
     \/ /\ cfg.EMERGENCY_FILTER_ENABLED
        /\ \E i \in 1..Len(detectOpportunities(priceData, cfg)) :
             validateOpportunityThrows(detectOpportunities(priceData, cfg)[i])

(***************************************************************************)
(* ArbitrageDataCollector: the price adapters                              *)
(*                                                                         *)
(* A CoinGecko response is [ok, entries]: ok = FALSE is a failed request;  *)
(* an entry is one key of the JSON body with its value, [key, object,      *)
(* hasUsd, usd, usd_24h_vol].  A DEXScreener response is [ok, hasPairs,    *)
(* pairs]; a pair is [dexId, baseSymbol, quoteSymbol, priceUsd, liquidity, *)
(* h24], where an empty string stands for a missing field, priceUsd is the *)
(* decimal string of the API and liquidity -1 is a missing liquidity.usd.  *)
(***************************************************************************)
Digits == <<"0","1","2","3","4","5","6","7","8","9">>

IsDigit(c) == \E i \in 1..10 : Digits[i] = c

DigitVal(c) == (CHOOSE i \in 1..10 : Digits[i] = c) - 1

RECURSIVE digitPrefix(_)
digitPrefix(s) ==
  IF s = <<>> \/ ~IsDigit(Head(s)) THEN <<>>
  ELSE <<Head(s)>> \o digitPrefix(Tail(s))

digitsToInt(ds) ==
  LET F[k \in 0..Len(ds)] ==
        IF k = 0 THEN 0 ELSE F[k - 1] * 10 + DigitVal(ds[k])
  IN  F[Len(ds)]

\* parseFloat of a decimal string, in thousandths: the longest prefix of
\* the form [+-]digits[.digits] is read (digits past the third decimal
\* are dropped); nan when there is no such prefix
parseFloat(s) ==
  LET signed == s # <<>> /\ (Head(s) = "-" \/ Head(s) = "+")
      body   == IF signed THEN Tail(s) ELSE s
      ip     == digitPrefix(body)
      rest   == SubSeq(body, Len(ip) + 1, Len(body))
      fp     == IF rest # <<>> /\ Head(rest) = "."
                  THEN digitPrefix(Tail(rest)) ELSE <<>>
      fp3    == SubSeq(fp \o <<"0","0","0">>, 1, 3)
      mag    == digitsToInt(ip) * 1000 + digitsToInt(fp3)
  IN  IF ip = <<>> /\ fp = <<>> THEN [nan |-> TRUE, v |-> 0]
      ELSE [nan |-> FALSE,
            v |-> IF signed /\ Head(s) = "-" THEN -mag ELSE mag]

\* getCoinGeckoPrices: one quote per entry whose value is an object
getCoinGeckoPrices(response) ==
  IF ~response.ok THEN <<>>
  ELSE
    LET es == response.entries
        F[k \in 0..Len(es)] ==
          IF k = 0 THEN <<>>
          ELSE IF es[k].object
            THEN Append(F[k - 1],
                   [exchange |-> <<"c","o","i","n","g","e","c","k","o","_",
                                   "a","v","e","r","a","g","e">>,
                    pair     |-> es[k].key \o <<"/","u","s","d">>,
                    price    |-> IF es[k].hasUsd /\ es[k].usd # 0
                                   THEN es[k].usd ELSE 0,
                    volume   |-> es[k].usd_24h_vol])
            ELSE F[k - 1]
    IN  F[Len(es)]

\* .sort((a, b) => (b.liquidity?.usd || 0) - (a.liquidity?.usd || 0)):
\* a stable sort, descending on liquidity
RECURSIVE sortByLiquidity(_)
sortByLiquidity(pairs) ==
  IF pairs = <<>> THEN <<>>
  ELSE LET n    == Len(pairs)
           x    == pairs[n]
           liq(q) == IF q.liquidity < 0 THEN 0 ELSE q.liquidity
           done == sortByLiquidity(SubSeq(pairs, 1, n - 1))
           p    == Cardinality({i \in 1..Len(done) : liq(done[i]) >= liq(x)})
       IN  SubSeq(done, 1, p) \o <<x>> \o SubSeq(done, p + 1, Len(done))

\* the number of pairs kept per request: .slice(0, 5)
MaxPairsKept == 5

\* fetchDEXScreenerData without the sort: the first five pairs that pass
fetchDEXScreenerData_firstFive(token, response, cfg) ==
  IF ~response.hasPairs THEN <<>>
  ELSE
    LET keep(q)    == /\ q.priceUsd # <<>>
                      /\ ~parseFloat(q.priceUsd).nan
                      /\ parseFloat(q.priceUsd).v > 0
                      /\ q.liquidity > cfg.DEXSCREENER_MIN_LIQUIDITY
        sorted     == SelectSeq(response.pairs, keep)
        validPairs == SubSeq(sorted, 1, Min(MaxPairsKept, Len(sorted)))
    IN  [i \in 1..Len(validPairs) |->
          [exchange |-> IF validPairs[i].dexId # <<>> THEN validPairs[i].dexId
                        ELSE <<"u","n","k","n","o","w","n","_","d","e","x">>,
           pair     |-> (IF validPairs[i].baseSymbol # <<>>
                           THEN validPairs[i].baseSymbol ELSE token)
                        \o <<"/">> \o
                        (IF validPairs[i].quoteSymbol # <<>>
                           THEN validPairs[i].quoteSymbol ELSE <<"U","S","D">>),
           price    |-> parseFloat(validPairs[i].priceUsd).v,
           volume   |-> validPairs[i].h24]]

\* fetchDEXScreenerData for a request that returned `response`
fetchDEXScreenerData(token, response, cfg) ==
  IF ~response.hasPairs THEN <<>>
  ELSE
    LET keep(q)    == /\ q.priceUsd # <<>>
                      /\ ~parseFloat(q.priceUsd).nan
                      /\ parseFloat(q.priceUsd).v > 0
                      /\ q.liquidity > cfg.DEXSCREENER_MIN_LIQUIDITY
        sorted     == sortByLiquidity(SelectSeq(response.pairs, keep))
        validPairs == SubSeq(sorted, 1, Min(MaxPairsKept, Len(sorted)))
    IN  [i \in 1..Len(validPairs) |->
          [exchange |-> IF validPairs[i].dexId # <<>> THEN validPairs[i].dexId
                        ELSE <<"u","n","k","n","o","w","n","_","d","e","x">>,
           pair     |-> (IF validPairs[i].baseSymbol # <<>>
                           THEN validPairs[i].baseSymbol ELSE token)
                        \o <<"/">> \o
                        (IF validPairs[i].quoteSymbol # <<>>
                           THEN validPairs[i].quoteSymbol ELSE <<"U","S","D">>),
           price    |-> parseFloat(validPairs[i].priceUsd).v,
           volume   |-> validPairs[i].h24]]

\* the keys of tokenAddresses
tokenAddresses == <<
     <<"e","t","h","e","r","e","u","m">>,
     <<"b","i","t","c","o","i","n">>,
     <<"s","o","l","a","n","a">>,
     <<"c","a","r","d","a","n","o">>,
     <<"u","s","d","-","c","o","i","n">>,
     <<"d","a","i">>,
     <<"t","e","t","h","e","r">>,
     <<"c","h","a","i","n","l","i","n","k">>,
     <<"u","n","i","s","w","a","p">>,
     <<"a","a","v","e">>,
     <<"c","o","m","p","o","u","n","d","-","g","o","v","e","r","n","a","n","c","e","-","t","o","k","e","n">>,
     <<"m","a","k","e","r">>,
     <<"s","y","n","t","h","e","t","i","x","-","n","e","t","w","o","r","k","-","t","o","k","e","n">>,
     <<"p","o","l","y","g","o","n">>,
     <<"a","v","a","l","a","n","c","h","e","-","2">>,
     <<"a","r","b","i","t","r","u","m">>,
     <<"o","p","t","i","m","i","s","m">>,
     <<"t","h","e","-","g","r","a","p","h">>,
     <<"c","u","r","v","e","-","d","a","o","-","t","o","k","e","n">>,
     <<"p","a","n","c","a","k","e","s","w","a","p","-","t","o","k","e","n">>,
     <<"s","u","s","h","i","s","w","a","p">>
>>

\* the response to the DEXScreener request of `token`: the one recorded in
\* `responses`, a failed request when none is recorded
dexResponseOf(responses, token) ==
  IF \E i \in 1..Len(responses) : responses[i].token = token
    THEN responses[CHOOSE i \in 1..Len(responses) : responses[i].token = token]
           .response
    ELSE [ok |-> FALSE, hasPairs |-> FALSE, pairs |-> <<>>]

\* getDEXPrices without the catch on each request: one failed request
\* rejects Promise.all and the outer catch returns []
getDEXPrices_allOrNothing(tokens, responses, cfg) ==
  LET hasAddress(t) == \E i \in 1..Len(tokenAddresses) : tokenAddresses[i] = t
      F[k \in 0..Len(tokens)] ==
        IF k = 0 THEN <<>>
        ELSE IF hasAddress(tokens[k])
          THEN F[k - 1] \o fetchDEXScreenerData(tokens[k],
                             dexResponseOf(responses, tokens[k]), cfg)
          ELSE F[k - 1]
  IN  IF \E k \in 1..Len(tokens) :
           hasAddress(tokens[k]) /\ ~dexResponseOf(responses, tokens[k]).ok
        THEN <<>> ELSE F[Len(tokens)]

\* getDEXPrices: the results of the requests, in the order of `tokens`; a
\* request that fails contributes nothing
getDEXPrices(tokens, responses, cfg) ==
  LET hasAddress(t) == \E i \in 1..Len(tokenAddresses) : tokenAddresses[i] = t
      F[k \in 0..Len(tokens)] ==
        IF k = 0 THEN <<>>
        ELSE IF hasAddress(tokens[k]) /\ dexResponseOf(responses, tokens[k]).ok
          THEN F[k - 1] \o fetchDEXScreenerData(tokens[k],
                             dexResponseOf(responses, tokens[k]), cfg)
          ELSE F[k - 1]
  IN  F[Len(tokens)]

collectPriceData(tokens, cgResp, dexResps, cfg) ==
  (IF cfg.COINGECKO_API_KEY THEN getCoinGeckoPrices(cgResp) ELSE <<>>)
    \o getDEXPrices(tokens, dexResps, cfg)

(***************************************************************************)
(* The 'collect prices' command of handleChat                              *)
(***************************************************************************)
VARIABLES
  config,                \* the configuration read from the environment
  cgResponse,            \* what the CoinGecko request of this pass returns
  dexResponses,          \* what the DEXScreener requests of this pass return
  pc,                    \* the position of the handler
  priceData,             \* the local priceData of the handler
  currentOpportunities,  \* the published list
  monitoringActive,      \* the monitoring switch
  monitorPc,             \* the position of runMonitoring
  allPriceData,          \* the local allPriceData of runMonitoring
  dexPc,                 \* the position of a call of getDEXPrices
  dexTokens,             \* its argument tokens
  dexI,                  \* its loop index i
  pending,               \* the positions in tokens of its unsettled requests
  dexPriceData,          \* its local priceData
  timedOut,              \* its requests of this batch cut off by the timeout
  cut,                   \* its requests whose response ended before its end
  arbitrageCollector,    \* whether the collector has been constructed
  arbitrageMonitoring,   \* serviceStatus.arbitrageMonitoring
  intervals,             \* the live timers of setInterval
  monitoringIntervalId,  \* global.monitoringIntervalId, 0 while undefined
  inFlight,              \* the passes that await collectPriceData
  passCount,             \* the number of passes started so far
  lastWrite              \* the pass that assigned currentOpportunities last

vars == <<config, cgResponse, dexResponses, pc, priceData, currentOpportunities,
          monitoringActive, monitorPc, allPriceData,
          dexPc, dexTokens, dexI, pending, dexPriceData, timedOut, cut,
          arbitrageCollector, arbitrageMonitoring, intervals,
          monitoringIntervalId, inFlight, passCount, lastWrite>>

\* the variables of a call of getDEXPrices followed request by request
batchVars == <<dexPc, dexTokens, dexI, pending, dexPriceData, timedOut, cut>>

\* the variables of the monitoring loop
monitorVars == <<monitoringActive, monitorPc, allPriceData>>

\* the variables of the 'collect prices' command
commandVars == <<cgResponse, dexResponses, pc, priceData>>

\* the variables of the timers and of the passes that overlap
loopVars == <<arbitrageCollector, arbitrageMonitoring, intervals,
              monitoringIntervalId, inFlight, passCount, lastWrite>>

\* the pass of lastWrite while currentOpportunities is the initial []
NoPass == [id |-> 0, kind |-> "none", from |-> <<>>]

\* let monitoringActive = false, and no pass of runMonitoring under way
NothingRunning ==
  /\ monitoringActive = FALSE
  /\ monitorPc = "idle"
  /\ allPriceData = <<>>
  /\ dexPc = "idle"
  /\ dexTokens = <<>>
  /\ dexI = 0
  /\ pending = {}
  /\ dexPriceData = <<>>
  /\ timedOut = {}
  /\ cut = {}
  /\ arbitrageCollector = TRUE
  /\ arbitrageMonitoring = FALSE
  /\ intervals = {}
  /\ monitoringIntervalId = 0
  /\ inFlight = {}
  /\ passCount = 0
  /\ lastWrite = NoPass

\* const tokens = [...] of the 'collect prices' command
collectTokens == <<
     <<"e","t","h","e","r","e","u","m">>,
     <<"b","i","t","c","o","i","n">>,
     <<"u","s","d","-","c","o","i","n">>,
     <<"c","h","a","i","n","l","i","n","k">>,
     <<"u","n","i","s","w","a","p">>,
     <<"p","o","l","y","g","o","n">>
>>

\* the command arrives and the handler awaits collectPriceData(tokens)
HandleCollectPrices ==
  /\ pc = "idle"
  /\ pc' = "collecting"
  /\ UNCHANGED <<config, cgResponse, dexResponses, priceData, currentOpportunities>>
  /\ UNCHANGED monitorVars
  /\ UNCHANGED batchVars
  /\ UNCHANGED loopVars

\* collectPriceData returns; the handler analyses the data and replaces the
\* published list.  An exception of the analysis is caught by handleChat,
\* which answers with an error and publishes nothing.
CollectPricesDone ==
  /\ pc = "collecting"
  /\ priceData' = collectPriceData(collectTokens, cgResponse, dexResponses, config)
  /\ IF analyzeArbitrageOpportunitiesThrows(priceData', config)
       THEN /\ pc' = "error"
            /\ UNCHANGED currentOpportunities
       ELSE /\ pc' = "done"
            /\ currentOpportunities' =
                 analyzeArbitrageOpportunities(priceData', config)
  /\ UNCHANGED <<config, cgResponse, dexResponses>>
  /\ UNCHANGED monitorVars
  /\ UNCHANGED batchVars
  /\ UNCHANGED loopVars

\* a session in which monitoring stays switched off, as it is at start-up:
\* the 'collect prices' command alone
Next == HandleCollectPrices \/ CollectPricesDone

(***************************************************************************)
(* The monitoring loop                                                     *)
(***************************************************************************)
\* const monitoredTokens of startMonitoringLoop
monitoredTokens == <<
     <<"e","t","h","e","r","e","u","m">>,
     <<"b","i","t","c","o","i","n">>,
     <<"s","o","l","a","n","a">>,
     <<"c","a","r","d","a","n","o">>,
     <<"u","s","d","-","c","o","i","n">>,
     <<"d","a","i">>,
     <<"t","e","t","h","e","r">>,
     <<"c","h","a","i","n","l","i","n","k">>,
     <<"u","n","i","s","w","a","p">>,
     <<"a","a","v","e">>,
     <<"c","o","m","p","o","u","n","d","-","g","o","v","e","r","n","a","n","c","e","-","t","o","k","e","n">>,
     <<"m","a","k","e","r">>,
     <<"s","y","n","t","h","e","t","i","x","-","n","e","t","w","o","r","k","-","t","o","k","e","n">>,
     <<"p","o","l","y","g","o","n">>,
     <<"a","v","a","l","a","n","c","h","e","-","2">>,
     <<"a","r","b","i","t","r","u","m">>,
     <<"o","p","t","i","m","i","s","m">>,
     <<"t","h","e","-","g","r","a","p","h">>,
     <<"c","u","r","v","e","-","d","a","o","-","t","o","k","e","n">>,
     <<"p","a","n","c","a","k","e","s","w","a","p","-","t","o","k","e","n">>,
     <<"s","u","s","h","i","s","w","a","p">>
>>

\* toggleArbitrageMonitoring, and the 'start monitoring' and 'stop
\* monitoring' commands: the switch is flipped; switching on starts the
\* loop, whose passes are the action runMonitoring
toggleArbitrageMonitoring ==
  /\ monitoringActive' = ~monitoringActive
  /\ UNCHANGED <<config, currentOpportunities, monitorPc, allPriceData>>
  /\ UNCHANGED commandVars
  /\ UNCHANGED batchVars
  /\ UNCHANGED loopVars

\* collectPriceData returns: with quotes the pass analyses them and replaces
\* the published list, unless the analysis raises, which the catch of the
\* pass logs; without quotes the pass only logs
runMonitoringDone ==
  /\ monitorPc = "collecting"
  /\ monitorPc' = "idle"
  /\ IF Len(allPriceData) > 0
          /\ ~analyzeArbitrageOpportunitiesThrows(allPriceData, config)
       THEN currentOpportunities' =
              analyzeArbitrageOpportunities(allPriceData, config)
       ELSE UNCHANGED currentOpportunities
  /\ UNCHANGED <<config, monitoringActive, allPriceData>>
  /\ UNCHANGED commandVars
  /\ UNCHANGED batchVars
  /\ UNCHANGED loopVars

(***************************************************************************)
(* getDEXPrices, request by request                                        *)
(***************************************************************************)
\* const batchSize = 5
batchSize == 5

\* tokenAddresses[token] is defined
hasTokenAddress(token) ==
  \E k \in 1..Len(tokenAddresses) : tokenAddresses[k] = token

\* the positions of tokens.slice(i, i + batchSize) whose token has an
\* address: the requests pushed on batchPromises
batchRequests(tokens, i) ==
  {k \in (i + 1)..Min(i + batchSize, Len(tokens)) : hasTokenAddress(tokens[k])}

\* batchSettled for promises without a catch: the await ends with the
\* first request that settles
batchSettled_first(unsettled) ==
  unsettled = {} \/ Cardinality(unsettled) < Cardinality(batchRequests(dexTokens, dexI))

\* await Promise.all(batchPromises) resumes: every promise of the batch has
\* a catch, so the await lasts until all of them have settled
batchSettled(unsettled) == unsettled = {}

\* the delay taken after every batch
delayNeeded_always(tokens, i) == TRUE

\* if (i + batchSize < tokens.length): another batch follows
delayNeeded(tokens, i) == i + batchSize < Len(tokens)

\* the results of the batch at i, in the order of batchPromises
RECURSIVE batchResults(_, _, _, _, _)
batchResults(tokens, i, k, responses, cfg) ==
  IF k > Min(i + batchSize, Len(tokens)) THEN <<>>
  ELSE (IF hasTokenAddress(tokens[k]) /\ dexResponseOf(responses, tokens[k]).ok
          THEN fetchDEXScreenerData(tokens[k],
                                    dexResponseOf(responses, tokens[k]), cfg)
          ELSE <<>>)
       \o batchResults(tokens, i, k + 1, responses, cfg)

\* what the requests of the call have settled with: a request that the
\* timeout has cut off has failed, whatever the server would have sent
settledResponses(tokens, responses, late) ==
  [k \in 1..Len(tokens) |->
     [token |-> tokens[k],
      response |-> IF k \in late
                     THEN [ok |-> FALSE, hasPairs |-> FALSE, pairs |-> <<>>]
                     ELSE dexResponseOf(responses, tokens[k])]]

\* getDEXPrices(tokens) is called: with no token it returns at once,
\* otherwise it sends the requests of the first batch and awaits them
getDEXPricesCall(tokens) ==
  /\ dexPc = "idle"
  /\ dexTokens' = tokens
  /\ dexI' = 0
  /\ dexPriceData' = <<>>
  /\ IF Len(tokens) = 0
       THEN dexPc' = "returned" /\ pending' = {}
       ELSE dexPc' = "awaitBatch" /\ pending' = batchRequests(tokens, 0)
  /\ timedOut' = {}
  /\ cut' = {}
  /\ UNCHANGED <<config, currentOpportunities>>
  /\ UNCHANGED commandVars
  /\ UNCHANGED monitorVars
  /\ UNCHANGED loopVars

\* one request of the batch settles: its response ends, and the promise
\* resolves, or the request fails, and the promise rejects
requestSettles ==
  /\ dexPc = "awaitBatch"
  /\ \E k \in pending \ cut : pending' = pending \ {k}
  /\ UNCHANGED <<dexPc, dexTokens, dexI, dexPriceData, timedOut, cut>>
  /\ UNCHANGED <<config, currentOpportunities>>
  /\ UNCHANGED commandVars
  /\ UNCHANGED monitorVars
  /\ UNCHANGED loopVars

\* a request of the batch stays idle for COLLECTION_TIMEOUT: the callback
\* of req.setTimeout destroys it and rejects the promise, and the catch of
\* the request turns that into null, a request without result
requestTimesOut ==
  /\ dexPc = "awaitBatch"
  /\ \E k \in pending \ cut :
       /\ pending' = pending \ {k}
       /\ timedOut' = timedOut \cup {k}
  /\ UNCHANGED <<dexPc, dexTokens, dexI, dexPriceData, cut>>
  /\ UNCHANGED <<config, currentOpportunities>>
  /\ UNCHANGED commandVars
  /\ UNCHANGED monitorVars
  /\ UNCHANGED loopVars

\* the connection of a request closes after the response has begun and
\* before its end: the response emits neither 'end' nor does the request
\* emit 'error', the socket and its timeout are gone, and nothing is left
\* that resolves or rejects the promise
responseCut ==
  /\ dexPc = "awaitBatch"
  /\ \E k \in pending \ cut : cut' = cut \cup {k}
  /\ UNCHANGED <<dexPc, dexTokens, dexI, pending, dexPriceData, timedOut>>
  /\ UNCHANGED <<config, currentOpportunities>>
  /\ UNCHANGED commandVars
  /\ UNCHANGED monitorVars
  /\ UNCHANGED loopVars

\* Promise.all resumes: the results are added, and the call waits for the
\* delay when another batch follows and returns when none does
batchDone ==
  /\ dexPc = "awaitBatch"
  /\ batchSettled(pending)
  /\ dexPriceData' = dexPriceData
       \o batchResults(dexTokens, dexI, dexI + 1,
                       settledResponses(dexTokens, dexResponses, timedOut), config)
  /\ dexPc' = IF delayNeeded(dexTokens, dexI) THEN "awaitDelay" ELSE "returned"
  /\ timedOut' = {}
  /\ UNCHANGED <<dexTokens, dexI, pending, cut>>
  /\ UNCHANGED <<config, currentOpportunities>>
  /\ UNCHANGED commandVars
  /\ UNCHANGED monitorVars
  /\ UNCHANGED loopVars

\* the timer of delayBetweenBatches fires: the loop goes on with i +=
\* batchSize, sends the requests of the next batch and awaits them, or
\* returns when the loop is over
delayElapsed ==
  /\ dexPc = "awaitDelay"
  /\ dexI' = dexI + batchSize
  /\ IF dexI + batchSize < Len(dexTokens)
       THEN /\ dexPc' = "awaitBatch"
            /\ pending' = pending \cup batchRequests(dexTokens, dexI + batchSize)
       ELSE /\ dexPc' = "returned"
            /\ UNCHANGED pending
  /\ UNCHANGED <<dexTokens, dexPriceData, timedOut, cut>>
  /\ UNCHANGED <<config, currentOpportunities>>
  /\ UNCHANGED commandVars
  /\ UNCHANGED monitorVars
  /\ UNCHANGED loopVars

(***************************************************************************)
(* Inputs                                                                  *)
(***************************************************************************)
\* the longest list of pairs in a DEXScreener response
MaxPairs == 3

SeqsUpTo(S, n) == UNION {[1..k -> S] : k \in 0..n}

s_uniswap == <<"u","n","i","s","w","a","p">>

s_sushiswap == <<"s","u","s","h","i","s","w","a","p">>

s_ethereum == <<"e","t","h","e","r","e","u","m">>

\* a pair with enough liquidity and a 24h volume of 200k
mkPair(dexId, base, priceUsd) ==
  [dexId |-> dexId, baseSymbol |-> base, quoteSymbol |-> <<>>,
   priceUsd |-> priceUsd, liquidity |-> 50000, h24 |-> 200000]

\* the default configuration but for the filter switch and the trade amount
ConfigWith(filter, amount) ==
  [EMERGENCY_FILTER_ENABLED |-> filter,
   TRADE_AMOUNT |-> amount,
   MIN_PROFIT_THRESHOLD |-> Rat(1, 2),
   COINGECKO_API_KEY |-> TRUE,
   DEXSCREENER_MIN_LIQUIDITY |-> 10000]

\* the default configuration, with the filter on or off
DefaultConfig(filter) == ConfigWith(filter, 1000)

FailedRequest == [ok |-> FALSE, hasPairs |-> FALSE, pairs |-> <<>>]

\* the responses in which the request of 'ethereum' returns `pairs`
OneDexResponse(pairs) ==
  << [token |-> s_ethereum,
      response |-> [ok |-> TRUE, hasPairs |-> TRUE, pairs |-> pairs]] >>

InitWith(cfgs, cgs, pairUniverse) ==
  /\ config \in cfgs
  /\ cgResponse \in cgs
  /\ \E pairs \in SeqsUpTo(pairUniverse, MaxPairs) :
        dexResponses = OneDexResponse(pairs)
  /\ pc = "idle"
  /\ priceData = <<>>
  /\ currentOpportunities = <<>>
  /\ NothingRunning

NoCoinGecko == [ok |-> FALSE, entries |-> <<>>]

\* ETH quotes of two venues at 3000, 3060 and 3300, and two eth quotes
DetectPairs ==
  {mkPair(d, <<"E","T","H">>, p) :
     d \in {s_uniswap, s_sushiswap},
     p \in {<<"3","0","0","0">>, <<"3","0","6","0">>, <<"3","3","0","0">>}}
  \cup {mkPair(s_uniswap, <<"e","t","h">>, <<"3","3","0","0">>),
        mkPair(s_sushiswap, <<"e","t","h">>, <<"3","0","0","0">>)}

InitDetect ==
  InitWith({DefaultConfig(TRUE), DefaultConfig(FALSE), ConfigWith(TRUE, 2000)},
           {NoCoinGecko}, DetectPairs)

SpecDetect == InitDetect /\ [][Next]_vars

\* the longest pair list and the longest CoinGecko body of the ingestion inputs
MaxIngestPairs == 2

MaxEntries == 1

cgEntry(key, object, hasUsd, usd) ==
  [key |-> key, object |-> object, hasUsd |-> hasUsd, usd |-> usd,
   usd_24h_vol |-> 200000]

\* entries of a CoinGecko body: ethereum with a price, without the usd
\* field, with a negative price and with a non-object value, and the key
\* of an error body {"status": {...}}
IngestEntries ==
  {cgEntry(s_ethereum, TRUE, TRUE, 3000000),
   cgEntry(s_ethereum, TRUE, FALSE, 0),
   cgEntry(s_ethereum, TRUE, TRUE, -3000000),
   cgEntry(s_ethereum, FALSE, FALSE, 0),
   cgEntry(<<"s","t","a","t","u","s">>, TRUE, FALSE, 0)}

IngestCoinGecko ==
  {NoCoinGecko}
    \cup {[ok |-> TRUE, entries |-> es] : es \in SeqsUpTo(IngestEntries, MaxEntries)}

\* pairs without a base symbol (so quoted as 'ethereum'): of uniswap with a
\* priceUsd that is a price, zero, negative, not a number or missing, and
\* one without a dexId
IngestPairs ==
  {mkPair(s_uniswap, <<>>, p) :
     p \in {<<"3","0","0","0">>, <<"3","3","0","0">>, <<"0">>, <<"-","5">>,
            <<"a","b","c">>, <<>>}}
  \cup
  {mkPair(<<>>, <<>>, <<"3","3","0","0">>)}

InitIngest ==
  /\ config \in {DefaultConfig(TRUE), DefaultConfig(FALSE)}
  /\ cgResponse \in IngestCoinGecko
  /\ \E pairs \in SeqsUpTo(IngestPairs, MaxIngestPairs) :
        dexResponses = OneDexResponse(pairs)
  /\ pc = "idle"
  /\ priceData = <<>>
  /\ currentOpportunities = <<>>
  /\ NothingRunning

SpecIngest == InitIngest /\ [][Next]_vars

\* the longest pair list of the filter inputs
MaxFilterPairs == 2

s_pulsex == <<"p","u","l","s","e","x">>

\* quotes of three venues, one of them blacklisted: 'ethereum' (no base
\* symbol) at 3000, 3090 and 6000, USDC at 0.94, 0.962, 1.00 and 1.30, and
\* the unmapped TOKEN at 5 and 6
FilterPairs ==
  {mkPair(s_uniswap,   <<>>, <<"3","0","0","0">>),
   mkPair(s_sushiswap, <<>>, <<"3","0","9","0">>),
   mkPair(s_sushiswap, <<>>, <<"6","0","0","0">>),
   mkPair(s_pulsex,    <<>>, <<"3","0","0","0">>),
   mkPair(s_uniswap,   <<"U","S","D","C">>, <<"0",".","9","4">>),
   mkPair(s_uniswap,   <<"U","S","D","C">>, <<"1",".","0","0">>),
   mkPair(s_sushiswap, <<"U","S","D","C">>, <<"0",".","9","6","2">>),
   mkPair(s_sushiswap, <<"U","S","D","C">>, <<"1",".","3","0">>),
   mkPair(s_pulsex,    <<"U","S","D","C">>, <<"1",".","3","0">>),
   mkPair(s_uniswap,   <<"T","O","K","E","N">>, <<"5">>),
   mkPair(s_sushiswap, <<"T","O","K","E","N">>, <<"6">>)}

\* a CoinGecko body with ethereum, once without its usd field
FilterCoinGecko ==
  {NoCoinGecko,
   [ok |-> TRUE, entries |-> <<cgEntry(s_ethereum, TRUE, FALSE, 0)>>]}

InitFilter ==
  /\ config = DefaultConfig(TRUE)
  /\ cgResponse \in FilterCoinGecko
  /\ \E pairs \in SeqsUpTo(FilterPairs, MaxFilterPairs) :
        dexResponses = OneDexResponse(pairs)
  /\ pc = "idle"
  /\ priceData = <<>>
  /\ currentOpportunities = <<>>
  /\ NothingRunning

SpecFilter == InitFilter /\ [][Next]_vars

\* the longest pair list of the stablecoin inputs
MaxStablePairs == 2

\* the five stablecoins in mixed letter case, each at 0.93 and 1.00 on
\* uniswap and at 0.94 and 1.06 on sushiswap, and usdc at 1.30
StablePairs ==
  {mkPair(s_uniswap, b, p) :
     b \in {<<"D","A","I">>, <<"u","s","d","c">>, <<"U","s","d","T">>,
            <<"b","u","s","d">>, <<"F","R","A","X">>},
     p \in {<<"0",".","9","3">>, <<"1",".","0","0">>}}
  \cup
  {mkPair(s_sushiswap, b, p) :
     b \in {<<"D","A","I">>, <<"u","s","d","c">>, <<"U","s","d","T">>,
            <<"b","u","s","d">>, <<"F","R","A","X">>},
     p \in {<<"0",".","9","4">>, <<"1",".","0","6">>}}
  \cup
  {mkPair(s_sushiswap, <<"u","s","d","c">>, <<"1",".","3","0">>)}

\* the filter enabled, trading 1000 or 100000 dollars
InitStable ==
  /\ config \in {ConfigWith(TRUE, 1000), ConfigWith(TRUE, 100000)}
  /\ cgResponse = NoCoinGecko
  /\ \E pairs \in SeqsUpTo(StablePairs, MaxStablePairs) :
        dexResponses = OneDexResponse(pairs)
  /\ pc = "idle"
  /\ priceData = <<>>
  /\ currentOpportunities = <<>>
  /\ NothingRunning

SpecStable == InitStable /\ [][Next]_vars

\* the longest pair list of the peg inputs
MaxPegPairs == 2

s_coingecko == <<"c","o","i","n","g","e","c","k","o">>

s_dai == <<"d","a","i">>

s_busd == <<"b","u","s","d">>

\* DAI and BUSD near the peg: DAI at 0.97 and 1.00 on uniswap, at 0.95,
\* 0.999, 1.01 and 1.04 on sushiswap and at 0.999 and 1.04 on a venue named
\* coingecko; BUSD at 1.00 on uniswap and at 1.01 and 1.04 on coingecko
PegPairs ==
  {mkPair(s_uniswap,   <<"D","A","I">>, <<"0",".","9","7">>),
   mkPair(s_uniswap,   <<"D","A","I">>, <<"1",".","0","0">>),
   mkPair(s_sushiswap, <<"D","A","I">>, <<"0",".","9","5">>),
   mkPair(s_sushiswap, <<"D","A","I">>, <<"0",".","9","9","9">>),
   mkPair(s_sushiswap, <<"D","A","I">>, <<"1",".","0","1">>),
   mkPair(s_sushiswap, <<"D","A","I">>, <<"1",".","0","4">>),
   mkPair(s_coingecko, <<"D","A","I">>, <<"0",".","9","9","9">>),
   mkPair(s_coingecko, <<"D","A","I">>, <<"1",".","0","4">>),
   mkPair(s_uniswap,   <<"B","U","S","D">>, <<"1",".","0","0">>),
   mkPair(s_coingecko, <<"B","U","S","D">>, <<"1",".","0","1">>),
   mkPair(s_coingecko, <<"B","U","S","D">>, <<"1",".","0","4">>)}

\* no CoinGecko body, or one with dai or busd at 1.00
PegCoinGecko ==
  {NoCoinGecko,
   [ok |-> TRUE, entries |-> <<cgEntry(s_dai, TRUE, TRUE, 1000)>>],
   [ok |-> TRUE, entries |-> <<cgEntry(s_busd, TRUE, TRUE, 1000)>>]}

InitPeg ==
  /\ config \in {ConfigWith(TRUE, 1000), ConfigWith(TRUE, 100000)}
  /\ cgResponse \in PegCoinGecko
  /\ \E pairs \in SeqsUpTo(PegPairs, MaxPegPairs) :
        dexResponses = OneDexResponse(pairs)
  /\ pc = "idle"
  /\ priceData = <<>>
  /\ currentOpportunities = <<>>
  /\ NothingRunning

SpecPeg == InitPeg /\ [][Next]_vars

\* the longest pair list of the venue inputs
MaxSourcePairs == 2

\* TOKEN at 5 and 5.50 on uniswap, Uniswap, pulsex, PulseX_v2 and a pair
\* without dexId, and at 9 on pulsex
SourcePairs ==
  {mkPair(d, <<"T","O","K","E","N">>, p) :
     d \in {s_uniswap, <<"U","n","i","s","w","a","p">>, s_pulsex,
            <<"P","u","l","s","e","X","_","v","2">>, <<>>},
     p \in {<<"5">>, <<"5",".","5","0">>}}
  \cup
  {mkPair(s_pulsex, <<"T","O","K","E","N">>, <<"9">>)}

InitSources ==
  /\ config \in {DefaultConfig(TRUE), DefaultConfig(FALSE)}
  /\ cgResponse = NoCoinGecko
  /\ \E pairs \in SeqsUpTo(SourcePairs, MaxSourcePairs) :
        dexResponses = OneDexResponse(pairs)
  /\ pc = "idle"
  /\ priceData = <<>>
  /\ currentOpportunities = <<>>
  /\ NothingRunning

SpecSources == InitSources /\ [][Next]_vars

\* the longest pair list of the ceiling inputs
MaxCeilingPairs == 2

\* a symbol at a low price on uniswap and at two higher prices on sushiswap
classPairs(base, low, below, above) ==
  {mkPair(s_uniswap, base, low), mkPair(s_sushiswap, base, below),
   mkPair(s_sushiswap, base, above)}

\* one symbol of each class and the unmapped TOKEN, in mixed letter case,
\* each with a spread under and a spread over the ceiling of its class, all
\* prices inside the price band
CeilingPairs ==
  classPairs(<<"u","s","d","c">>, <<"0",".","9","6">>, <<"1",".","0","0">>,
             <<"1",".","0","4">>)
  \cup classPairs(<<"E","t","h">>, <<"3","0","0","0">>, <<"3","3","0","0">>,
                  <<"3","9","0","0">>)
  \cup classPairs(<<"w","b","t","c">>, <<"5","0","0","0","0">>,
                  <<"5","2","0","0","0">>, <<"6","4","0","0","0">>)
  \cup classPairs(<<"L","I","N","K">>, <<"1","0">>, <<"1","2">>, <<"1","6">>)
  \cup classPairs(<<"S","o","l">>, <<"1","0","0">>, <<"1","5","0">>,
                  <<"2","1","0">>)
  \cup classPairs(<<"m","a","t","i","c">>, <<"1">>, <<"1",".","5">>,
                  <<"2",".","1">>)
  \cup classPairs(<<"G","R","T">>, <<"1">>, <<"2">>, <<"2",".","6">>)
  \cup classPairs(<<"T","O","K","E","N">>, <<"5">>, <<"7">>, <<"8">>)

InitCeiling ==
  /\ config \in {DefaultConfig(TRUE), DefaultConfig(FALSE)}
  /\ cgResponse = NoCoinGecko
  /\ \E pairs \in SeqsUpTo(CeilingPairs, MaxCeilingPairs) :
        dexResponses = OneDexResponse(pairs)
  /\ pc = "idle"
  /\ priceData = <<>>
  /\ currentOpportunities = <<>>
  /\ NothingRunning

SpecCeiling == InitCeiling /\ [][Next]_vars

\* the longest pair list of the threshold inputs
MaxThresholdPairs == 2

\* small spreads: usdc and TOKEN at 0.2%, LINK and TOKEN at 0.6%, GRT and
\* TOKEN at 2.6%, GRT at 4%
ThresholdPairs ==
  {mkPair(s_uniswap,   <<"u","s","d","c">>, <<"1",".","0","0">>),
   mkPair(s_sushiswap, <<"u","s","d","c">>, <<"1",".","0","0","2">>),
   mkPair(s_uniswap,   <<"L","I","N","K">>, <<"1","0">>),
   mkPair(s_sushiswap, <<"L","I","N","K">>, <<"1","0",".","0","6">>),
   mkPair(s_uniswap,   <<"G","R","T">>, <<"1">>),
   mkPair(s_sushiswap, <<"G","R","T">>, <<"1",".","0","2","6">>),
   mkPair(s_sushiswap, <<"G","R","T">>, <<"1",".","0","4">>),
   mkPair(s_uniswap,   <<"T","O","K","E","N">>, <<"5">>),
   mkPair(s_sushiswap, <<"T","O","K","E","N">>, <<"5",".","0","1">>),
   mkPair(s_sushiswap, <<"T","O","K","E","N">>, <<"5",".","0","3">>),
   mkPair(s_sushiswap, <<"T","O","K","E","N">>, <<"5",".","1","3">>)}

\* the filter disabled, trading 1000 or 100000 dollars
InitThreshold ==
  /\ config \in {ConfigWith(FALSE, 1000), ConfigWith(FALSE, 100000)}
  /\ cgResponse = NoCoinGecko
  /\ \E pairs \in SeqsUpTo(ThresholdPairs, MaxThresholdPairs) :
        dexResponses = OneDexResponse(pairs)
  /\ pc = "idle"
  /\ priceData = <<>>
  /\ currentOpportunities = <<>>
  /\ NothingRunning

SpecThreshold == InitThreshold /\ [][Next]_vars

\* the longest pair list of the ordering inputs
MaxSortPairs == 4

\* a pair with enough liquidity and a 24h volume of 50k
mkThinPair(dexId, base, priceUsd) ==
  [mkPair(dexId, base, priceUsd) EXCEPT !.h24 = 50000]

\* ETH at 3000 on uniswap and at 3300 and 3900 on sushiswap, WBTC at 50000
\* on uniswap and at 52000 (thin volume) and 55000 on sushiswap
SortPairs ==
  {mkPair(s_uniswap,       <<"E","T","H">>, <<"3","0","0","0">>),
   mkPair(s_sushiswap,     <<"E","T","H">>, <<"3","3","0","0">>),
   mkPair(s_sushiswap,     <<"E","T","H">>, <<"3","9","0","0">>),
   mkPair(s_uniswap,       <<"W","B","T","C">>, <<"5","0","0","0","0">>),
   mkThinPair(s_sushiswap, <<"W","B","T","C">>, <<"5","2","0","0","0">>),
   mkPair(s_sushiswap,     <<"W","B","T","C">>, <<"5","5","0","0","0">>)}

InitSort ==
  /\ config \in {DefaultConfig(TRUE), DefaultConfig(FALSE)}
  /\ cgResponse = NoCoinGecko
  /\ \E pairs \in SeqsUpTo(SortPairs, MaxSortPairs) :
        dexResponses = OneDexResponse(pairs)
  /\ pc = "idle"
  /\ priceData = <<>>
  /\ currentOpportunities = <<>>
  /\ NothingRunning

SpecSort == InitSort /\ [][Next]_vars

(***************************************************************************)
(* Inputs in which adapters fail                                           *)
(***************************************************************************)
\* the longest list of pairs in the response of one asset
MaxIsolationPairs == 2

s_bitcoin == <<"b","i","t","c","o","i","n">>

\* a body without a pairs array
MalformedResponse == [ok |-> TRUE, hasPairs |-> FALSE, pairs |-> <<>>]

\* what the request of one asset returns: a failure, a malformed body, or
\* pairs of the universe
responsesOf(pairUniverse) ==
  {FailedRequest, MalformedResponse}
  \cup {[ok |-> TRUE, hasPairs |-> TRUE, pairs |-> pairs] :
          pairs \in SeqsUpTo(pairUniverse, MaxIsolationPairs)}

IsolationEthPairs ==
  {mkPair(s_uniswap, <<"E","T","H">>, <<"3","0","0","0">>),
   mkPair(s_sushiswap, <<"E","T","H">>, <<"3","3","0","0">>)}

IsolationBtcPairs ==
  {mkPair(s_uniswap, <<"W","B","T","C">>, <<"5","0","0","0","0">>),
   mkPair(s_sushiswap, <<"W","B","T","C">>, <<"5","5","0","0","0">>)}

\* the body {"status": {"error_code": 429, ...}} of a rate-limited request
RateLimitBody ==
  [ok |-> TRUE, entries |-> <<cgEntry(<<"s","t","a","t","u","s">>, TRUE, FALSE, 0)>>]

\* a failed CoinGecko request, a rate-limited one, and bodies with ethereum,
\* and with ethereum and bitcoin
IsolationCoinGecko ==
  {NoCoinGecko, RateLimitBody,
   [ok |-> TRUE, entries |-> <<cgEntry(s_ethereum, TRUE, TRUE, 3000000)>>],
   [ok |-> TRUE, entries |-> <<cgEntry(s_ethereum, TRUE, TRUE, 3000000),
                               cgEntry(s_bitcoin, TRUE, TRUE, 50000000)>>]}

\* the requests of ethereum and of bitcoin are answered, those of the other
\* tokens of the command fail
InitIsolation ==
  /\ config \in {DefaultConfig(TRUE), DefaultConfig(FALSE)}
  /\ cgResponse \in IsolationCoinGecko
  /\ \E eth \in responsesOf(IsolationEthPairs),
        btc \in responsesOf(IsolationBtcPairs) :
        dexResponses = << [token |-> s_ethereum, response |-> eth],
                          [token |-> s_bitcoin, response |-> btc] >>
  /\ pc = "idle"
  /\ priceData = <<>>
  /\ currentOpportunities = <<>>
  /\ NothingRunning

SpecIsolation == InitIsolation /\ [][Next]_vars

s_balancer == <<"b","a","l","a","n","c","e","r">>

ethPairs == << mkPair(s_uniswap, <<"E","T","H">>, <<"3","0","0","0">>),
               mkPair(s_sushiswap, <<"E","T","H">>, <<"3","3","0","0">>) >>

wbtcPairs == << mkPair(s_uniswap, <<"W","B","T","C">>, <<"5","0","0","0","0">>),
                mkPair(s_sushiswap, <<"W","B","T","C">>, <<"5","5","0","0","0">>) >>

\* ETH pairs one of which has a number for its dexId: the cheapest one, the
\* dearest one next to a reputable cheapest venue, and the dearest one next
\* to a cheapest venue that is not reputable
malformedEthPairs ==
  { << mkPair(NotAString, <<"E","T","H">>, <<"3","0","0","0">>),
       mkPair(s_uniswap, <<"E","T","H">>, <<"3","3","0","0">>) >>,
    << mkPair(s_uniswap, <<"E","T","H">>, <<"3","0","0","0">>),
       mkPair(NotAString, <<"E","T","H">>, <<"3","3","0","0">>) >>,
    << mkPair(s_balancer, <<"E","T","H">>, <<"3","0","0","0">>),
       mkPair(NotAString, <<"E","T","H">>, <<"3","3","0","0">>) >> }

\* what the DEXScreener requests of a monitoring pass return: a failed
\* request, no pair, ETH pairs, WBTC pairs, both, and malformed ETH pairs
\* before or after the WBTC pairs
MonitorDexResponses ==
  { << [token |-> s_ethereum, response |-> FailedRequest] >> }
  \cup { OneDexResponse(pairs) :
           pairs \in {<<>>, ethPairs, wbtcPairs, ethPairs \o wbtcPairs} }
  \cup { OneDexResponse(bad \o wbtcPairs) : bad \in malformedEthPairs }
  \cup { OneDexResponse(wbtcPairs \o bad) : bad \in malformedEthPairs }

\* a pass of runMonitoring starts and awaits collectPriceData, whose
\* DEXScreener requests are answered by dex while the CoinGecko request
\* fails; passes do not overlap here
runMonitoring ==
  /\ monitoringActive
  /\ monitorPc = "idle"
  /\ monitorPc' = "collecting"
  /\ \E dex \in MonitorDexResponses :
       allPriceData' = collectPriceData(monitoredTokens, NoCoinGecko, dex, config)
  /\ UNCHANGED <<config, currentOpportunities, monitoringActive>>
  /\ UNCHANGED commandVars
  /\ UNCHANGED batchVars
  /\ UNCHANGED loopVars

InitMonitoring ==
  /\ config \in {DefaultConfig(TRUE), DefaultConfig(FALSE)}
  /\ cgResponse = NoCoinGecko
  /\ dexResponses \in MonitorDexResponses
  /\ pc = "idle"
  /\ priceData = <<>>
  /\ currentOpportunities = <<>>
  /\ NothingRunning

\* a session with the command and the monitoring loop
NextMonitoring ==
  \/ HandleCollectPrices
  \/ CollectPricesDone
  \/ toggleArbitrageMonitoring
  \/ runMonitoring
  \/ runMonitoringDone

SpecMonitoring == InitMonitoring /\ [][NextMonitoring]_vars

(***************************************************************************)
(* Inputs of a call of getDEXPrices                                        *)
(***************************************************************************)
\* the longest list of tokens handed to getDEXPrices
MaxTokens == 11

\* a token without an entry in tokenAddresses
s_dogecoin == <<"d","o","g","e","c","o","i","n">>

\* the tokens the lists are cut from: monitored tokens, with dogecoin in
\* the first and in the second batch
batchTokenList ==
  SubSeq(monitoredTokens, 1, 3) \o <<s_dogecoin>> \o SubSeq(monitoredTokens, 4, 8)
    \o <<s_dogecoin>> \o SubSeq(monitoredTokens, 9, 21)

\* lists of up to MaxTokens tokens, all with an address or with dogecoin
\* among them
BatchTokenLists ==
  {SubSeq(monitoredTokens, 1, n) : n \in 0..MaxTokens}
  \cup {SubSeq(batchTokenList, 1, n) : n \in 0..MaxTokens}

\* the request of ethereum returns two pairs, that of bitcoin a malformed
\* body, and all the others fail
InitBatches ==
  /\ config = DefaultConfig(FALSE)
  /\ cgResponse = NoCoinGecko
  /\ dexResponses =
       << [token |-> s_ethereum,
           response |-> [ok |-> TRUE, hasPairs |-> TRUE, pairs |-> ethPairs]],
          [token |-> s_bitcoin, response |-> MalformedResponse] >>
  /\ pc = "idle"
  /\ priceData = <<>>
  /\ currentOpportunities = <<>>
  /\ NothingRunning

\* one call of getDEXPrices
NextBatches ==
  \/ \E tokens \in BatchTokenLists : getDEXPricesCall(tokens)
  \/ requestSettles
  \/ batchDone
  \/ delayElapsed

SpecBatches == InitBatches /\ [][NextBatches]_vars

(***************************************************************************)
(* Inputs of the filter of the pairs of one response                       *)
(***************************************************************************)
\* the longest list of pairs in the response of one asset
MaxVenuePairs == 6

\* a pair of ETH with a liquidity of its own
mkLiquidPair(dexId, priceUsd, liquidity) ==
  [mkPair(dexId, <<"E","T","H">>, priceUsd) EXCEPT !.liquidity = liquidity]

\* two pairs that pass the filter, on two venues and with two liquidities,
\* a pair whose liquidity is the minimum itself, and a pair with a price of
\* 0 and the highest liquidity of all
VenuePairs ==
  {mkLiquidPair(s_uniswap, <<"3","0","0","0">>, 50000),
   mkLiquidPair(s_sushiswap, <<"3","0","6","0">>, 80000),
   mkLiquidPair(s_balancer, <<"3","1","0","0">>, 10000),
   mkLiquidPair(s_sushiswap, <<"0">>, 90000)}

InitVenue ==
  /\ config = DefaultConfig(FALSE)
  /\ cgResponse = NoCoinGecko
  /\ \E pairs \in SeqsUpTo(VenuePairs, MaxVenuePairs) :
        dexResponses = OneDexResponse(pairs)
  /\ pc = "idle"
  /\ priceData = <<>>
  /\ currentOpportunities = <<>>
  /\ NothingRunning

SpecVenue == InitVenue /\ [][Next]_vars

(***************************************************************************)
(* The commands, the timers and the passes that overlap                    *)
(***************************************************************************)
\* the number of passes a session starts at most
MaxPasses == 3

\* what the DEXScreener requests of a pass return: a failed request, ETH
\* pairs, WBTC pairs, or ETH pairs one of which has a number for its dexId
LoopDexResponses ==
  { << [token |-> s_ethereum, response |-> FailedRequest] >>,
    OneDexResponse(ethPairs),
    OneDexResponse(wbtcPairs),
    OneDexResponse(<< mkPair(NotAString, <<"E","T","H">>, <<"3","0","0","0">>),
                      mkPair(s_uniswap, <<"E","T","H">>, <<"3","3","0","0">>) >>) }

\* a call of runMonitoring that gets past its guard, or the 'collect prices'
\* command, starts a pass: it calls collectPriceData and awaits it
startPass(kind) ==
  /\ passCount < MaxPasses
  /\ passCount' = passCount + 1
  /\ inFlight' = inFlight \cup {[id |-> passCount + 1, kind |-> kind]}

\* publish that appends the result to the list instead of replacing it
publish_append(pass, data) ==
  /\ currentOpportunities' =
       currentOpportunities \o analyzeArbitrageOpportunities(data, config)
  /\ lastWrite' = [id |-> pass.id, kind |-> pass.kind, from |-> data]

\* currentOpportunities = opportunities, by the pass `pass` and from `data`
publish(pass, data) ==
  /\ currentOpportunities' = analyzeArbitrageOpportunities(data, config)
  /\ lastWrite' = [id |-> pass.id, kind |-> pass.kind, from |-> data]

\* the 'start monitoring' command: handleChat awaits
\* toggleArbitrageMonitoring, which returns a message without a collector,
\* switches monitoring off when it is on, and otherwise switches it on and
\* calls startMonitoringLoop, whose first call of runMonitoring gets to its
\* await of collectPriceData
handleChatStartMonitoring ==
  /\ IF ~arbitrageCollector
       THEN UNCHANGED <<monitoringActive, arbitrageMonitoring, inFlight, passCount>>
       ELSE IF monitoringActive
         THEN /\ monitoringActive' = FALSE
              /\ arbitrageMonitoring' = FALSE
              /\ UNCHANGED <<inFlight, passCount>>
         ELSE /\ monitoringActive' = TRUE
              /\ arbitrageMonitoring' = TRUE
              /\ startPass("loopStart")
  /\ UNCHANGED <<config, currentOpportunities, monitorPc, allPriceData>>
  /\ UNCHANGED <<arbitrageCollector, intervals, monitoringIntervalId, lastWrite>>
  /\ UNCHANGED commandVars
  /\ UNCHANGED batchVars

\* the 'stop monitoring' command: when monitoring is on it is switched off
\* and the timer of global.monitoringIntervalId, if there is one, is
\* cleared; the id stays in the global
handleChatStopMonitoring ==
  /\ IF monitoringActive
       THEN /\ monitoringActive' = FALSE
            /\ arbitrageMonitoring' = FALSE
            /\ intervals' = IF monitoringIntervalId # 0
                              THEN intervals \ {monitoringIntervalId}
                              ELSE intervals
       ELSE UNCHANGED <<monitoringActive, arbitrageMonitoring, intervals>>
  /\ UNCHANGED <<config, currentOpportunities, monitorPc, allPriceData>>
  /\ UNCHANGED <<arbitrageCollector, monitoringIntervalId, inFlight, passCount, lastWrite>>
  /\ UNCHANGED commandVars
  /\ UNCHANGED batchVars

\* intervalFires without the guard of runMonitoring
intervalFires_unguarded ==
  /\ intervals # {}
  /\ startPass("interval")
  /\ UNCHANGED <<config, currentOpportunities, monitoringActive, monitorPc, allPriceData>>
  /\ UNCHANGED <<arbitrageCollector, arbitrageMonitoring, intervals,
                 monitoringIntervalId, lastWrite>>
  /\ UNCHANGED commandVars
  /\ UNCHANGED batchVars

\* a live timer fires and calls runMonitoring, which returns at once when
\* monitoring is off and starts a pass otherwise
intervalFires ==
  /\ intervals # {}
  /\ IF ~monitoringActive \/ ~arbitrageCollector
       THEN UNCHANGED <<inFlight, passCount>>
       ELSE startPass("interval")
  /\ UNCHANGED <<config, currentOpportunities, monitoringActive, monitorPc, allPriceData>>
  /\ UNCHANGED <<arbitrageCollector, arbitrageMonitoring, intervals,
                 monitoringIntervalId, lastWrite>>
  /\ UNCHANGED commandVars
  /\ UNCHANGED batchVars

\* collectPriceData returns to a pass of runMonitoring: with quotes the pass
\* analyses them and assigns currentOpportunities, unless the analysis
\* raises; a pass called by startMonitoringLoop returns to it, and it
\* creates the timer and stores its id
runMonitoringResumes ==
  /\ \E pass \in {p \in inFlight : p.kind \in {"loopStart", "interval"}} :
       /\ inFlight' = inFlight \ {pass}
       /\ \E data \in {collectPriceData(monitoredTokens, NoCoinGecko, dex, config) :
                         dex \in LoopDexResponses} :
            IF Len(data) > 0 /\ ~analyzeArbitrageOpportunitiesThrows(data, config)
              THEN publish(pass, data)
              ELSE UNCHANGED <<currentOpportunities, lastWrite>>
       /\ IF pass.kind = "loopStart"
            THEN /\ intervals' = intervals \cup {pass.id}
                 /\ monitoringIntervalId' = pass.id
            ELSE UNCHANGED <<intervals, monitoringIntervalId>>
  /\ UNCHANGED <<config, monitoringActive, monitorPc, allPriceData>>
  /\ UNCHANGED <<arbitrageCollector, arbitrageMonitoring, passCount>>
  /\ UNCHANGED commandVars
  /\ UNCHANGED batchVars

\* the 'collect prices' command: without a collector handleChat answers at
\* once, otherwise it calls collectPriceData and awaits it
handleChatCollectPrices ==
  /\ IF ~arbitrageCollector
       THEN UNCHANGED <<inFlight, passCount>>
       ELSE startPass("command")
  /\ UNCHANGED <<config, currentOpportunities>>
  /\ UNCHANGED monitorVars
  /\ UNCHANGED <<arbitrageCollector, arbitrageMonitoring, intervals,
                 monitoringIntervalId, lastWrite>>
  /\ UNCHANGED commandVars
  /\ UNCHANGED batchVars

\* collectPriceData returns to the command, which analyses the data and
\* assigns currentOpportunities, unless the analysis raises
handleChatCollectPricesResumes ==
  /\ \E pass \in {p \in inFlight : p.kind = "command"} :
       /\ inFlight' = inFlight \ {pass}
       /\ \E data \in {collectPriceData(collectTokens, NoCoinGecko, dex, config) :
                         dex \in LoopDexResponses} :
            IF ~analyzeArbitrageOpportunitiesThrows(data, config)
              THEN publish(pass, data)
              ELSE UNCHANGED <<currentOpportunities, lastWrite>>
  /\ UNCHANGED config
  /\ UNCHANGED monitorVars
  /\ UNCHANGED <<arbitrageCollector, arbitrageMonitoring, intervals,
                 monitoringIntervalId, passCount>>
  /\ UNCHANGED commandVars
  /\ UNCHANGED batchVars

\* the state at start-up, with the collector constructed or, when
\* initializeServices has failed before that, without it
InitLoop ==
  /\ config = DefaultConfig(TRUE)
  /\ cgResponse = NoCoinGecko
  /\ dexResponses = <<>>
  /\ pc = "idle"
  /\ priceData = <<>>
  /\ currentOpportunities = <<>>
  /\ monitoringActive = FALSE
  /\ monitorPc = "idle"
  /\ allPriceData = <<>>
  /\ dexPc = "idle"
  /\ dexTokens = <<>>
  /\ dexI = 0
  /\ pending = {}
  /\ dexPriceData = <<>>
  /\ timedOut = {}
  /\ cut = {}
  /\ arbitrageCollector \in BOOLEAN
  /\ arbitrageMonitoring = FALSE
  /\ intervals = {}
  /\ monitoringIntervalId = 0
  /\ inFlight = {}
  /\ passCount = 0
  /\ lastWrite = NoPass

\* a session of commands while timers fire and passes return in any order
NextLoop ==
  \/ handleChatStartMonitoring
  \/ handleChatStopMonitoring
  \/ intervalFires
  \/ runMonitoringResumes
  \/ handleChatCollectPrices
  \/ handleChatCollectPricesResumes

SpecLoop == InitLoop /\ [][NextLoop]_vars

(***************************************************************************)
(* Inputs with batches of several candidates                               *)
(***************************************************************************)
\* the number of tokens of the command whose requests are answered
MaxSummaryTokens == 4

\* tokens of the command, each with the symbol of its pairs, a price on
\* uniswap and a higher price
SummaryTokens ==
  << [token |-> s_ethereum, base |-> <<"E","T","H">>,
      low |-> <<"3","0","0","0">>, high |-> <<"3","3","0","0">>],
     [token |-> s_bitcoin, base |-> <<"W","B","T","C">>,
      low |-> <<"5","0","0","0","0">>, high |-> <<"5","5","0","0","0">>],
     [token |-> <<"c","h","a","i","n","l","i","n","k">>, base |-> <<"L","I","N","K">>,
      low |-> <<"2","0">>, high |-> <<"2","2">>],
     [token |-> s_uniswap, base |-> <<"U","N","I">>,
      low |-> <<"1","0">>, high |-> <<"1","1">>],
     [token |-> <<"p","o","l","y","g","o","n">>, base |-> <<"M","A","T","I","C">>,
      low |-> <<"5">>, high |-> <<"6">>] >>

\* what the request of the n-th token returns: no pair when the choice is
\* "none", and else the lower price on uniswap and the higher one on
\* sushiswap ("sound") or on pulsex ("suspect")
summaryResponse(choice, n) ==
  [token |-> SummaryTokens[n].token,
   response |->
     [ok |-> TRUE, hasPairs |-> TRUE,
      pairs |->
        IF choice[n] = "none" THEN <<>>
        ELSE << mkPair(s_uniswap, SummaryTokens[n].base, SummaryTokens[n].low),
                mkPair(IF choice[n] = "sound" THEN s_sushiswap ELSE s_pulsex,
                       SummaryTokens[n].base, SummaryTokens[n].high) >>]]

InitSummary ==
  /\ config \in {DefaultConfig(TRUE), DefaultConfig(FALSE)}
  /\ cgResponse = NoCoinGecko
  /\ \E choice \in [1..MaxSummaryTokens -> {"none", "sound", "suspect"}] :
        dexResponses = [n \in 1..MaxSummaryTokens |-> summaryResponse(choice, n)]
  /\ pc = "idle"
  /\ priceData = <<>>
  /\ currentOpportunities = <<>>
  /\ NothingRunning

SpecSummary == InitSummary /\ [][Next]_vars

(***************************************************************************)
(* Inputs around the profit bands of the score                             *)
(***************************************************************************)
\* the longest pair list of the band inputs
MaxBandPairs == 2

s_chainlink == <<"c","h","a","i","n","l","i","n","k">>

\* pairs on venues named coingecko and binance, the most reliable ones:
\* ethereum 0.8%, 3% and 15% above 3000, chainlink 1%, 5% and 20% above 20,
\* and dogecoin, which has no price range, 5% and 20% above 0.10
BandPairs ==
  {mkPair(s_coingecko, s_ethereum,  <<"3","0","2","4">>),
   mkPair(s_coingecko, s_ethereum,  <<"3","0","9","0">>),
   mkPair(s_coingecko, s_ethereum,  <<"3","4","5","0">>),
   mkPair(s_coingecko, s_chainlink, <<"2","0",".","2">>),
   mkPair(<<"b","i","n","a","n","c","e">>, s_chainlink, <<"2","1">>),
   mkPair(s_coingecko, s_chainlink, <<"2","4">>),
   mkPair(s_coingecko, s_dogecoin,  <<"0",".","1","0","5">>),
   mkPair(s_coingecko, s_dogecoin,  <<"0",".","1","2">>)}

\* no CoinGecko body, or one with ethereum at 3000, chainlink at 20 or
\* dogecoin at 0.10
BandCoinGecko ==
  {NoCoinGecko,
   [ok |-> TRUE, entries |-> <<cgEntry(s_ethereum, TRUE, TRUE, 3000000)>>],
   [ok |-> TRUE, entries |-> <<cgEntry(s_chainlink, TRUE, TRUE, 20000)>>],
   [ok |-> TRUE, entries |-> <<cgEntry(s_dogecoin, TRUE, TRUE, 100)>>]}

InitBand ==
  /\ config \in {ConfigWith(TRUE, 1000), ConfigWith(TRUE, 100000)}
  /\ cgResponse \in BandCoinGecko
  /\ \E pairs \in SeqsUpTo(BandPairs, MaxBandPairs) :
        dexResponses = OneDexResponse(pairs)
  /\ pc = "idle"
  /\ priceData = <<>>
  /\ currentOpportunities = <<>>
  /\ NothingRunning

SpecBand == InitBand /\ [][Next]_vars

(***************************************************************************)
(* A call of getDEXPrices whose requests may hang                          *)
(***************************************************************************)
\* the longest list of tokens of a call whose requests may hang
MaxRequestTokens == 6

\* one call of getDEXPrices for the first tokens of the monitoring loop;
\* every request returns, fails, stays idle until its timeout, or has its
\* response cut
NextRequests ==
  \/ \E n \in 0..MaxRequestTokens : getDEXPricesCall(SubSeq(monitoredTokens, 1, n))
  \/ requestSettles
  \/ requestTimesOut
  \/ responseCut
  \/ batchDone
  \/ delayElapsed

\* every request that can still settle does so, by its response, its error
\* or its timeout; the continuations of the awaits and the delay timer run
\* the pair the request of dai returns
daiPairs == << mkPair(s_uniswap, <<"D","A","I">>, <<"1">>) >>

\* the request of dai, the first of the second batch, returns one pair, and
\* all the others fail
InitRequests ==
  /\ config = DefaultConfig(FALSE)
  /\ cgResponse = NoCoinGecko
  /\ dexResponses =
       << [token |-> monitoredTokens[6],
           response |-> [ok |-> TRUE, hasPairs |-> TRUE, pairs |-> daiPairs]] >>
  /\ pc = "idle"
  /\ priceData = <<>>
  /\ currentOpportunities = <<>>
  /\ NothingRunning

SpecRequests ==
  /\ InitRequests
  /\ [][NextRequests]_vars
  /\ WF_vars(requestSettles \/ requestTimesOut)
  /\ WF_vars(batchDone)
  /\ WF_vars(delayElapsed)

(***************************************************************************)
(* Properties of the detector                                              *)
(***************************************************************************)
\* the assets of a quote list: the lower-cased base symbols
AssetsOf(pd) == {toLowerCase(splitFirst(pd[i].pair)) : i \in 1..Len(pd)}

\* the positions of the quotes of asset a
QuotesOf(pd, a) ==
  {i \in 1..Len(pd) : toLowerCase(splitFirst(pd[i].pair)) = a}

VenuesOf(pd, a) == {pd[i].exchange : i \in QuotesOf(pd, a)}

LowestPrice(pd, a) ==
  CHOOSE p \in {pd[i].price : i \in QuotesOf(pd, a)} :
    \A i \in QuotesOf(pd, a) : p <= pd[i].price

HighestPrice(pd, a) ==
  CHOOSE p \in {pd[i].price : i \in QuotesOf(pd, a)} :
    \A i \in QuotesOf(pd, a) : p >= pd[i].price

\* (highest - lowest) / lowest * 100
SpreadPct(pd, a) ==
  Rat((HighestPrice(pd, a) - LowestPrice(pd, a)) * 100, LowestPrice(pd, a))

\* the spread meets the minimum threshold of the asset's class and
\* TRADE_AMOUNT * pct / 100 - gas estimate is positive
Profitable(pd, a, cfg) ==
  /\ RGe(SpreadPct(pd, a), getMinProfitThreshold(a, cfg))
  /\ RGt(RSub(RDivInt(RMulInt(SpreadPct(pd, a), cfg.TRADE_AMOUNT), 100),
              estimateGasCost),
         Rat(0, 1))

\* the earliest of the cheapest quotes and the latest of the most expensive
FirstCheapest(pd, a) ==
  CHOOSE i \in QuotesOf(pd, a) :
    /\ pd[i].price = LowestPrice(pd, a)
    /\ \A j \in QuotesOf(pd, a) : pd[j].price = LowestPrice(pd, a) => i <= j

LastDearest(pd, a) ==
  CHOOSE i \in QuotesOf(pd, a) :
    /\ pd[i].price = HighestPrice(pd, a)
    /\ \A j \in QuotesOf(pd, a) : pd[j].price = HighestPrice(pd, a) => j <= i

\* the number of candidates the detector produces for asset a
CandidateCount(pd, a, cfg) ==
  LET c == detectOpportunities(pd, cfg)
  IN  Cardinality({i \in 1..Len(c) : c[i].token = toUpperCase(a)})

\* C1, as stated: an asset quoted by at least two distinct exchanges whose
\* spread meets the class threshold and whose net profit is positive yields
\* exactly one candidate.
C1_AsStated ==
  pc = "done" =>
    \A a \in AssetsOf(priceData) :
      (Cardinality(VenuesOf(priceData, a)) >= 2 /\ Profitable(priceData, a, config))
        => CandidateCount(priceData, a, config) = 1

\* C1, amended: the detector produces exactly one candidate for an asset
\* when the earliest cheapest quote and the latest most expensive quote of
\* the asset come from different exchanges, the spread meets the class
\* threshold and the net profit is positive, and no candidate otherwise (in
\* particular none when those two quotes share an exchange, however many
\* exchanges quote the asset).
C1_OneCandidatePerAsset ==
  pc = "done" =>
    \A a \in AssetsOf(priceData) :
      CandidateCount(priceData, a, config) =
        IF /\ priceData[FirstCheapest(priceData, a)].exchange
                # priceData[LastDearest(priceData, a)].exchange
           /\ Profitable(priceData, a, config)
          THEN 1 ELSE 0

\* an asset quoted in both letter cases by three quotes of two exchanges
\* yields its one candidate
C1_Witness ==
  /\ pc = "done"
  /\ \E a \in AssetsOf(priceData) :
       /\ Cardinality(QuotesOf(priceData, a)) >= 3
       /\ Cardinality({splitFirst(priceData[i].pair) : i \in QuotesOf(priceData, a)}) = 2
       /\ Cardinality(VenuesOf(priceData, a)) = 2
       /\ Profitable(priceData, a, config)
       /\ CandidateCount(priceData, a, config) = 1

\* the quotes of the scenario: ETH at 3000 on one venue and at 3060 on another
EthScenario ==
  /\ pc = "done"
  /\ Len(priceData) = 2
  /\ AssetsOf(priceData) = {<<"e","t","h">>}
  /\ {priceData[i].price : i \in 1..2} = {3000000, 3060000}
  /\ priceData[1].exchange # priceData[2].exchange
  /\ \A i \in 1..2 : priceData[i].volume = 200000

\* the candidate of the scenario: buy at the 3000 venue, sell at the 3060
\* venue, gross profit 2.0%
IsEthCandidate(o) ==
  /\ \E i \in 1..2 : priceData[i].price = 3000000
                     /\ priceData[i].exchange = o.buyExchange
  /\ \E i \in 1..2 : priceData[i].price = 3060000
                     /\ priceData[i].exchange = o.sellExchange
  /\ o.profitPercentage = Rat(2, 1)

\* C9, as stated: in the default configuration with the filter enabled the
\* ETH 3000 / 3060 quotes are published as one candidate of 2.0% with
\* confidence 'high'.
C9_AsStated ==
  (EthScenario /\ config = DefaultConfig(TRUE)) =>
    /\ Len(currentOpportunities) = 1
    /\ IsEthCandidate(currentOpportunities[1])
    /\ currentOpportunities[1].confidence = "high"

\* C9, amended: in the default configuration (TRADE_AMOUNT 1000) with the
\* filter enabled the ETH 3000 / 3060 quotes yield no candidate, the net
\* profit 20 - 22.5 not being positive, and the published list is empty;
\* with TRADE_AMOUNT 2000 and the venues uniswap and sushiswap the one
\* candidate (buy at 3000, sell at 3060, 2.0%) is produced, accepted and
\* published with confidence 'high'.
C9_EthScenario ==
  /\ (EthScenario /\ config = DefaultConfig(TRUE)) =>
       /\ detectOpportunities(priceData, config) = <<>>
       /\ currentOpportunities = <<>>
  /\ (EthScenario /\ config = ConfigWith(TRUE, 2000)) =>
       /\ Len(detectOpportunities(priceData, config)) = 1
       /\ Len(currentOpportunities) = 1
       /\ IsEthCandidate(currentOpportunities[1])
       /\ currentOpportunities[1].netProfit = Rat(35, 2)
       /\ currentOpportunities[1].confidence = "high"

\* the scenario has run in the default configuration with the filter enabled
C9_Witness ==
  /\ EthScenario
  /\ config = DefaultConfig(TRUE)
  /\ currentOpportunities = <<>>

\* C2: every published opportunity has distinct buy and sell exchanges, a
\* sell price not below the buy price and a positive net profit, and an
\* asset whose quotes all come from one exchange yields no opportunity.
C2_OpportunityInvariants ==
  /\ \A i \in 1..Len(currentOpportunities) :
       /\ currentOpportunities[i].buyExchange # currentOpportunities[i].sellExchange
       /\ currentOpportunities[i].sellPrice >= currentOpportunities[i].buyPrice
       /\ RGt(currentOpportunities[i].netProfit, Rat(0, 1))
  /\ pc = "done" =>
       \A a \in AssetsOf(priceData) :
         Cardinality(VenuesOf(priceData, a)) = 1 =>
           /\ CandidateCount(priceData, a, config) = 0
           /\ \A i \in 1..Len(currentOpportunities) :
                currentOpportunities[i].token # toUpperCase(a)

\* several quotes of one asset, all of one exchange, with a profitable
\* spread, have been analysed and nothing is published
C2_Witness ==
  /\ pc = "done"
  /\ \E a \in AssetsOf(priceData) :
       /\ Cardinality(QuotesOf(priceData, a)) >= 2
       /\ Cardinality(VenuesOf(priceData, a)) = 1
       /\ Profitable(priceData, a, config)
  /\ currentOpportunities = <<>>

\* C3, as stated: every quote returned by collectPriceData has price > 0.
C3_PositivePrices ==
  pc = "done" => \A i \in 1..Len(priceData) : priceData[i].price > 0

(***************************************************************************)
(* Properties of the filter                                                *)
(***************************************************************************)
\* the candidates of the pass: what the detector hands to the filter
Candidates == detectOpportunities(priceData, config)

\* the five checks, each on its own
FailsNumeric(o) == ~(o.buyPrice > 0 /\ o.sellPrice > 0)

FailsPriceBand(o) ==
  /\ getPriceRange(o.token) # NoRange
  /\ \E q \in {o.buyPrice, o.sellPrice} :
       q < getPriceRange(o.token).min \/ q > getPriceRange(o.token).max

FailsProfitCeiling(o) == ~validateProfitRate(o)

FailsSources(o) == ~validateSources(o.buyExchange, o.sellExchange)

FailsPeg(o) ==
  /\ isStablecoin(o.token)
  /\ DeviationExceeds(o.buyPrice) \/ DeviationExceeds(o.sellPrice)

\* the numbers, in the order numeric, band, ceiling, sources, peg, of the
\* checks a candidate fails
FailedChecks(o) ==
  {k \in 1..5 : CASE k = 1 -> FailsNumeric(o)
                  [] k = 2 -> FailsPriceBand(o)
                  [] k = 3 -> FailsProfitCeiling(o)
                  [] k = 4 -> FailsSources(o)
                  [] k = 5 -> FailsPeg(o)}

CheckReason(k) ==
  CASE k = 1 -> "Invalid price data"
    [] k = 2 -> "Price out of range"
    [] k = 3 -> "Invalid profit rate"
    [] k = 4 -> "Unreliable source"
    [] k = 5 -> "Stablecoin anomaly"

Earliest(S) == CHOOSE k \in S : \A j \in S : k <= j

\* C4: the checks run in the order numeric, band, ceiling, sources, peg and
\* short-circuit: a candidate failing some checks is rejected with the
\* reason of the earliest one, score 0; a score is computed only when all
\* five pass.
C4_FirstFailingCheckDecides ==
  pc = "done" =>
    \A i \in 1..Len(Candidates) :
      LET o == Candidates[i]
          v == validateOpportunity(o)
      IN  /\ FailedChecks(o) # {} =>
               /\ v.reason = CheckReason(Earliest(FailedChecks(o)))
               /\ v.score = 0
               /\ v.recommendation = "REJECT"
               /\ ~v.isValid
          /\ FailedChecks(o) = {} =>
               /\ v.score = calculateScore(o)
               /\ v.score > 0
               /\ v.reason \in {"Passed all validation checks",
                                "Moderate confidence, requires manual review",
                                "Low confidence score"}

\* a candidate failing three or more checks, the numeric one not among
\* them, has been validated
C4_Witness ==
  /\ pc = "done"
  /\ \E i \in 1..Len(Candidates) :
       /\ Cardinality(FailedChecks(Candidates[i])) >= 3
       /\ 1 \notin FailedChecks(Candidates[i])

\* C5: the score is in 0..100; ACCEPT with isValid exactly when all checks
\* pass and the score is at least 70, CAUTION without isValid exactly when
\* all pass and the score is in 40..69, REJECT without isValid otherwise.
C5_RecommendationFromScore ==
  pc = "done" =>
    \A i \in 1..Len(Candidates) :
      LET o == Candidates[i]
          v == validateOpportunity(o)
          allPass == FailedChecks(o) = {}
      IN  /\ v.score \in 0..100
          /\ v.recommendation \in {"ACCEPT", "CAUTION", "REJECT"}
          /\ (v.recommendation = "ACCEPT") <=> (allPass /\ v.score >= 70)
          /\ (v.recommendation = "CAUTION")
               <=> (allPass /\ v.score >= 40 /\ v.score <= 69)
          /\ v.isValid <=> (v.recommendation = "ACCEPT")

\* a candidate passing all checks with a score between 40 and 69 has been
\* validated
C5_Witness ==
  /\ pc = "done"
  /\ \E i \in 1..Len(Candidates) :
       /\ FailedChecks(Candidates[i]) = {}
       /\ validateOpportunity(Candidates[i]).score \in 40..69
       /\ validateOpportunity(Candidates[i]).recommendation = "CAUTION"

\* o is candidate c, possibly with another confidence
SameCandidate(o, c) == [o EXCEPT !.confidence = c.confidence] = c

\* C6: with the filter enabled every published opportunity passes the five
\* checks with a score of at least 70 and has confidence 'high', and no
\* candidate recommended CAUTION or REJECT is in the published list.
C6_OnlyAcceptedPublished ==
  config.EMERGENCY_FILTER_ENABLED =>
    /\ \A i \in 1..Len(currentOpportunities) :
         /\ FailedChecks(currentOpportunities[i]) = {}
         /\ calculateScore(currentOpportunities[i]) >= 70
         /\ currentOpportunities[i].confidence = "high"
    /\ pc = "done" =>
         \A i \in 1..Len(Candidates) :
           validateOpportunity(Candidates[i]).recommendation # "ACCEPT" =>
             \A j \in 1..Len(currentOpportunities) :
               ~SameCandidate(currentOpportunities[j], Candidates[i])

\* an accepted candidate is published with the filter enabled
C6_Witness ==
  /\ pc = "done"
  /\ config.EMERGENCY_FILTER_ENABLED
  /\ currentOpportunities # <<>>
  /\ \E i \in 1..Len(Candidates) :
       SameCandidate(currentOpportunities[1], Candidates[i])

\* the candidate is, or with the filter enabled is not, in the published list
Published(c) ==
  \E j \in 1..Len(currentOpportunities) :
    SameCandidate(currentOpportunities[j], c)

StablecoinSymbols ==
  {<<"D","A","I">>, <<"U","S","D","C">>, <<"U","S","D","T">>,
   <<"B","U","S","D">>, <<"F","R","A","X">>}

IsStablecoinCandidate(o) == toUpperCase(o.token) \in StablecoinSymbols

\* more than 5% away from the 1.00 peg, in thousandths
OffPeg(price) == Abs(price - 1000) > 50

\* C7: a stablecoin candidate, in any letter case, with buyPrice or
\* sellPrice more than 5% off the 1.00 peg is never accepted by the filter,
\* and is not published.
C7_OffPegNeverAccepted ==
  pc = "done" =>
    \A i \in 1..Len(Candidates) :
      LET o == Candidates[i]
          lower == [o EXCEPT !.token = toLowerCase(o.token)]
      IN  (IsStablecoinCandidate(o) /\ (OffPeg(o.buyPrice) \/ OffPeg(o.sellPrice)))
            => /\ validateOpportunity(o).recommendation # "ACCEPT"
               /\ ~validateOpportunity(o).isValid
               /\ validateOpportunity(lower).recommendation # "ACCEPT"
               /\ ~validateOpportunity(lower).isValid
               /\ ~Published(o)

\* a stablecoin candidate more than 5% off the peg that passes the numeric,
\* band, ceiling and source checks has been rejected
C7_Witness ==
  /\ pc = "done"
  /\ currentOpportunities = <<>>
  /\ \E i \in 1..Len(Candidates) :
       /\ IsStablecoinCandidate(Candidates[i])
       /\ OffPeg(Candidates[i].buyPrice) \/ OffPeg(Candidates[i].sellPrice)
       /\ FailedChecks(Candidates[i]) = {5}
       /\ validateOpportunity(Candidates[i]).reason = "Stablecoin anomaly"

\* a stablecoin candidate with both prices within 5% of the peg that passes
\* the numeric, band, ceiling and source checks
PegCandidate(o, within) ==
  /\ IsStablecoinCandidate(o)
  /\ Abs(o.buyPrice - 1000) <= within
  /\ Abs(o.sellPrice - 1000) <= within
  /\ FailedChecks(o) \cap {1, 2, 3, 4} = {}

\* C8 as stated: every stablecoin candidate within 5% of the peg that
\* passes the other four checks is accepted, whatever its venues and however
\* small its profit.
C8_AsStated ==
  pc = "done" =>
    \A i \in 1..Len(Candidates) :
      PegCandidate(Candidates[i], 50) =>
        /\ validateOpportunity(Candidates[i]).recommendation = "ACCEPT"
        /\ validateOpportunity(Candidates[i]).isValid

ReliabilitySum(o) ==
  getSourceReliability(o.buyExchange) + getSourceReliability(o.sellExchange)

\* C8: a stablecoin candidate with both prices less than 5% from the peg
\* that passes the other four checks is accepted only with a score of 70:
\* DAI, USDC and USDT with a profit of 0.5% to 2% for every pair of venues,
\* and with any other profit only when the venues' reliabilities sum to 30;
\* BUSD and FRAX only with a profit of at least 2% and reliabilities summing
\* to 30.  Every other such candidate gets CAUTION or REJECT, not valid.
C8_PegAcceptance ==
  pc = "done" =>
    \A i \in 1..Len(Candidates) :
      LET o == Candidates[i]
          v == validateOpportunity(o)
          pct == o.profitPercentage
          classed == toUpperCase(o.token) \in
                       {<<"D","A","I">>, <<"U","S","D","C">>, <<"U","S","D","T">>}
          sweet == RGe(pct, Rat(1, 2)) /\ RLe(pct, Rat(2, 1))
          accepted == v.recommendation = "ACCEPT" /\ v.isValid
      IN  PegCandidate(o, 49) =>
            /\ (classed /\ sweet) => accepted
            /\ (classed /\ ~sweet) => (accepted <=> ReliabilitySum(o) >= 30)
            /\ ~classed =>
                 (accepted <=> (RGe(pct, Rat(2, 1)) /\ ReliabilitySum(o) >= 30))
            /\ ~accepted =>
                 /\ v.recommendation \in {"CAUTION", "REJECT"}
                 /\ ~v.isValid
                 /\ ~Published(o)
            /\ accepted => Published(o)

\* a DAI candidate within the peg tolerance, uniswap against sushiswap, with
\* a profit between 0.5% and 2%, has been accepted and published
C8_Witness ==
  /\ pc = "done"
  /\ \E i \in 1..Len(Candidates) :
       /\ PegCandidate(Candidates[i], 49)
       /\ ReliabilitySum(Candidates[i]) < 30
       /\ RLe(Candidates[i].profitPercentage, Rat(2, 1))
       /\ validateOpportunity(Candidates[i]).recommendation = "ACCEPT"
       /\ Published(Candidates[i])

Blacklist ==
  {<<"p","u","l","s","e","x">>, <<"p","o","w","s","w","a","p">>,
   <<"u","n","k","n","o","w","n","_","d","e","x">>,
   <<"u","n","k","n","o","w","n">>}

Blacklisted(venue) == \E b \in Blacklist : includes(toLowerCase(venue), b)

\* a venue on the blacklist, or twice the same venue up to letter case
SuspectVenues(o) ==
  \/ Blacklisted(o.buyExchange)
  \/ Blacklisted(o.sellExchange)
  \/ toLowerCase(o.buyExchange) = toLowerCase(o.sellExchange)

RejectedAtSourceCheck(o) ==
  FailedChecks(o) \cap {1, 2, 3} = {} =>
    /\ validateOpportunity(o).reason = "Unreliable source"
    /\ validateOpportunity(o).recommendation = "REJECT"
    /\ validateOpportunity(o).score = 0

\* C10 as stated: a candidate with a blacklisted venue, or with the same
\* venue twice up to letter case, is rejected at the source check when the
\* three checks before it pass, and is never published.
C10_AsStated ==
  pc = "done" =>
    \A i \in 1..Len(Candidates) :
      SuspectVenues(Candidates[i]) =>
        /\ RejectedAtSourceCheck(Candidates[i])
        /\ ~Published(Candidates[i])

\* C10: such a candidate is rejected at the source check when the three
\* checks before it pass, and is not published when the filter is enabled.
C10_SuspectVenuesRejected ==
  pc = "done" =>
    \A i \in 1..Len(Candidates) :
      SuspectVenues(Candidates[i]) =>
        /\ RejectedAtSourceCheck(Candidates[i])
        /\ config.EMERGENCY_FILTER_ENABLED => ~Published(Candidates[i])

\* TOKEN at 5 on a blacklisted venue against 5.50 on another venue passed
\* the first three checks and, the filter enabled, was not published
C10_Witness ==
  /\ pc = "done"
  /\ config.EMERGENCY_FILTER_ENABLED
  /\ currentOpportunities = <<>>
  /\ \E i \in 1..Len(Candidates) :
       /\ Blacklisted(Candidates[i].buyExchange)
       /\ ~Blacklisted(Candidates[i].sellExchange)
       /\ Candidates[i].buyPrice = 5000
       /\ Candidates[i].sellPrice = 5500
       /\ FailedChecks(Candidates[i]) = {4}

\* the class of a symbol, looked up whatever its letter case
ClassOf(token) ==
  IF getPriceRange(token) = NoRange THEN "unmapped"
  ELSE getPriceRange(token).type

\* the profit ceiling of a class, in percent
ClassCeiling(class) ==
  CASE class = "stablecoin"     -> 5
    [] class = "major-crypto"   -> 25
    [] class = "bitcoin-pegged" -> 25
    [] class = "defi"           -> 50
    [] class = "layer1"         -> 100
    [] class = "layer2"         -> 100
    [] class = "infrastructure" -> 150
    [] class = "unmapped"       -> 50

OverCeiling(o) ==
  RGt(o.profitPercentage, Rat(ClassCeiling(ClassOf(o.token)), 1))

\* rejected, and at the profit-rate check when the two checks before pass
RejectedForProfitRate(o) ==
  /\ validateOpportunity(o).recommendation = "REJECT"
  /\ ~validateOpportunity(o).isValid
  /\ FailedChecks(o) \cap {1, 2} = {} =>
       validateOpportunity(o).reason = "Invalid profit rate"

UnmappedPassesBand(o) ==
  ClassOf(o.token) = "unmapped" =>
    /\ validatePriceRange(o.token, o.buyPrice, o.sellPrice)
    /\ validateOpportunity(o).reason # "Price out of range"

\* C11 as stated: a candidate over the profit ceiling of its class is
\* rejected by the filter and never published; the class is looked up
\* whatever the letter case, and an unmapped symbol passes the price band.
C11_AsStated ==
  pc = "done" =>
    \A i \in 1..Len(Candidates) :
      LET o == Candidates[i]
          lower == [o EXCEPT !.token = toLowerCase(o.token)]
      IN  /\ OverCeiling(o) =>
               /\ RejectedForProfitRate(o)
               /\ RejectedForProfitRate(lower)
               /\ ~Published(o)
          /\ UnmappedPassesBand(o)

\* C11: a candidate over the profit ceiling of its class is rejected by the
\* filter, at the profit-rate check when the numeric and band checks pass,
\* and is not published when the filter is enabled; the class is looked up
\* whatever the letter case, and an unmapped symbol passes the price band.
C11_OverCeilingRejected ==
  pc = "done" =>
    \A i \in 1..Len(Candidates) :
      LET o == Candidates[i]
          lower == [o EXCEPT !.token = toLowerCase(o.token)]
      IN  /\ OverCeiling(o) =>
               /\ RejectedForProfitRate(o)
               /\ RejectedForProfitRate(lower)
               /\ config.EMERGENCY_FILTER_ENABLED => ~Published(o)
          /\ UnmappedPassesBand(o)

\* a candidate of a mapped class over its ceiling, its prices inside the
\* band, was rejected with the filter enabled and nothing was published
C11_Witness ==
  /\ pc = "done"
  /\ config.EMERGENCY_FILTER_ENABLED
  /\ currentOpportunities = <<>>
  /\ \E i \in 1..Len(Candidates) :
       /\ OverCeiling(Candidates[i])
       /\ ClassOf(Candidates[i].token) = "layer1"
       /\ FailedChecks(Candidates[i]) = {3}

\* the minimum gross profit of a mapped class, in percent
ClassThreshold(class) ==
  CASE class = "stablecoin"     -> Rat(1, 10)
    [] class = "major-crypto"   -> Rat(1, 2)
    [] class = "bitcoin-pegged" -> Rat(1, 2)
    [] class = "defi"           -> Rat(1, 1)
    [] class = "layer1"         -> Rat(2, 1)
    [] class = "layer2"         -> Rat(2, 1)
    [] class = "infrastructure" -> Rat(3, 1)

MappedClasses ==
  {"stablecoin", "major-crypto", "bitcoin-pegged", "defi", "layer1", "layer2",
   "infrastructure"}

\* C12 as stated: a candidate is built only with a gross profit of at least
\* the threshold of its class; the stablecoin threshold, 0.1%, is the
\* smallest, and the threshold applied to an unmapped symbol is at least the
\* threshold of every mapped class.
C12_AsStated ==
  pc = "done" =>
    \A i \in 1..Len(Candidates) :
      LET o == Candidates[i]
      IN  /\ ClassOf(o.token) \in MappedClasses =>
               /\ RGe(o.profitPercentage, ClassThreshold(ClassOf(o.token)))
               /\ RGe(ClassThreshold(ClassOf(o.token)),
                      ClassThreshold("stablecoin"))
          /\ ClassOf(o.token) = "unmapped" =>
               \A c \in MappedClasses :
                 /\ RGe(getMinProfitThreshold(o.token, config),
                        ClassThreshold(c))
                 /\ RGe(o.profitPercentage, ClassThreshold(c))

\* no element of the list has a smaller netProfit than a later one
NonIncreasing(list) ==
  \A j, k \in 1..Len(list) :
    j < k => ~RLt(list[j].netProfit, list[k].netProfit)

FilterOn(cfg) == [cfg EXCEPT !.EMERGENCY_FILTER_ENABLED = TRUE]

FilterOff(cfg) == [cfg EXCEPT !.EMERGENCY_FILTER_ENABLED = FALSE]

C14_FilterIdempotent ==
  pc = "done" =>
    LET cands  == Candidates
        first  == filterOpportunities(cands)
        second == filterOpportunities(first.accepted)
    IN  /\ second.accepted = first.accepted
        /\ second.rejected = <<>>
        /\ second.summary.rejected = 0
        /\ \A i \in 1..Len(first.accepted) :
             \A j \in 1..Len(cands) :
               SameCandidate(first.accepted[i], cands[j]) =>
                 LET again == validateOpportunity(first.accepted[i])
                     once  == validateOpportunity(cands[j])
                 IN  /\ again.recommendation = once.recommendation
                     /\ again.score = once.score

\* the filter accepted two candidates and changed the confidence of one
C14_Witness ==
  /\ pc = "done"
  /\ Len(filterOpportunities(Candidates).accepted) = 2
  /\ Len(filterOpportunities(Candidates).rejected) = 0
  /\ \E i \in 1..Len(Candidates) :
       /\ Candidates[i].confidence = "medium"
       /\ validateOpportunity(Candidates[i]).isValid

\* list is a rearrangement of the members of from, up to their confidence
Rearranges(list, from) ==
  /\ Len(list) = Len(from)
  /\ \A i \in 1..Len(from) :
       Cardinality({j \in 1..Len(list) : SameCandidate(list[j], from[i])})
         = Cardinality({j \in 1..Len(from) : SameCandidate(from[j], from[i])})

\* the position in from of a member of list
PlaceIn(from, o) == CHOOSE j \in 1..Len(from) : SameCandidate(o, from[j])

\* members of equal netProfit keep the order they have in from
KeepsOrderOfEquals(list, from) ==
  \A j, k \in 1..Len(list) :
    (j < k /\ list[j].netProfit = list[k].netProfit)
      => PlaceIn(from, list[j]) < PlaceIn(from, list[k])

\* the candidates that are published: all of them with the filter disabled,
\* those validateOpportunity accepts with it enabled
Survivors ==
  IF config.EMERGENCY_FILTER_ENABLED
    THEN SelectSeq(Candidates, LAMBDA o : validateOpportunity(o).isValid)
    ELSE Candidates

\* C15 as stated: the published list is a rearrangement of the surviving
\* candidates in which every element has a strictly larger netProfit than
\* the next one.
C15_AsStated ==
  pc = "done" =>
    /\ Rearranges(currentOpportunities, Survivors)
    /\ \A j \in 1..(Len(currentOpportunities) - 1) :
         RGt(currentOpportunities[j].netProfit,
             currentOpportunities[j + 1].netProfit)

\* C15: the published list is a rearrangement of the surviving candidates
\* in which no element has a smaller netProfit than a later one, and
\* candidates of equal netProfit keep the order of detection.
C15_SortedStable ==
  pc = "done" =>
    LET survivors == Survivors
    IN  /\ Rearranges(currentOpportunities, survivors)
        /\ NonIncreasing(currentOpportunities)
        /\ KeepsOrderOfEquals(currentOpportunities, survivors)

\* two candidates were published in the reverse of their order of detection
C15_Witness ==
  /\ pc = "done"
  /\ Len(currentOpportunities) = 2
  /\ Len(Candidates) = 2
  /\ SameCandidate(currentOpportunities[1], Candidates[2])
  /\ RGt(currentOpportunities[1].netProfit, currentOpportunities[2].netProfit)

\* C16: empty quote input gives empty opportunity output and no error:
\* analyzeArbitrageOpportunities of no quotes returns the empty list and
\* raises nothing under the configuration at hand (the specification has
\* the filter enabled and disabled), the filter handed the empty list
\* returns empty lists, and a 'collect prices' command that collected no
\* quotes ends without error and publishes the empty list.
C16_EmptyInEmptyOut ==
  /\ analyzeArbitrageOpportunities(<<>>, config) = <<>>
  /\ ~analyzeArbitrageOpportunitiesThrows(<<>>, config)
  /\ filterOpportunities(<<>>).accepted = <<>>
  /\ filterOpportunities(<<>>).rejected = <<>>
  /\ (pc \in {"done", "error"} /\ priceData = <<>>)
       => (pc = "done" /\ currentOpportunities = <<>>)

\* a 'collect prices' command has ended with the filter enabled, having
\* asked for pairs and collected no quote
C16_Witness ==
  /\ pc = "done"
  /\ priceData = <<>>
  /\ config.EMERGENCY_FILTER_ENABLED
  /\ Len(dexResponses[1].response.pairs) = 2
  /\ currentOpportunities = <<>>

\* C17 as stated: a monitoring pass whose collectPriceData returned no quote
\* leaves the published list empty.
C17_AsStated ==
  [][(monitorPc = "collecting" /\ monitorPc' = "idle" /\ allPriceData = <<>>)
       => currentOpportunities' = <<>>]_vars

\* detecting or scoring the group of `token` raises
GroupRaises(pd, token, cfg) ==
  \/ analyzeGroupThrows(token, tokenGroup(pd, token), cfg)
  \/ /\ cfg.EMERGENCY_FILTER_ENABLED
     /\ \E i \in 1..Len(analyzeGroup(token, tokenGroup(pd, token), cfg)) :
          validateOpportunityThrows(
            analyzeGroup(token, tokenGroup(pd, token), cfg)[i])

\* the quotes of the assets whose group raises nothing
SoundQuotes(pd, cfg) ==
  SelectSeq(pd, LAMBDA q : ~GroupRaises(pd, groupKey(q), cfg))

\* every opportunity of the assets whose group raises nothing is in list
SoundAssetsPublished(pd, cfg, list) ==
  LET expected == analyzeArbitrageOpportunities(SoundQuotes(pd, cfg), cfg)
  IN  \A i \in 1..Len(expected) :
        \E j \in 1..Len(list) : list[j] = expected[i]

\* C19 as stated: when a monitoring pass that collected quotes, or a
\* 'collect prices' command, ends, the opportunities of every asset whose
\* group raised nothing are published, whatever the groups of the other
\* assets raised.
C19_AsStated ==
  [][/\ (monitorPc = "collecting" /\ monitorPc' = "idle"
           /\ Len(allPriceData) > 0)
          => SoundAssetsPublished(allPriceData, config, currentOpportunities')
     /\ (pc = "collecting" /\ pc' # "collecting")
          => SoundAssetsPublished(priceData', config, currentOpportunities')
    ]_vars

\* the same with nothing raising, which holds: the exceptions alone break
\* C19
C19_WithoutExceptions ==
  [][/\ (monitorPc = "collecting" /\ monitorPc' = "idle"
           /\ Len(allPriceData) > 0
           /\ ~analyzeArbitrageOpportunitiesThrows(allPriceData, config))
          => SoundAssetsPublished(allPriceData, config, currentOpportunities')
     /\ (pc = "collecting" /\ pc' = "done")
          => SoundAssetsPublished(priceData', config, currentOpportunities')
    ]_vars

s_coingecko_average ==
  <<"c","o","i","n","g","e","c","k","o","_","a","v","e","r","a","g","e">>

\* the quotes of list that come from CoinGecko, and those that come from
\* the DEX requests
FromCoinGecko(list) == SelectSeq(list, LAMBDA q : q.exchange = s_coingecko_average)

FromDex(list) == SelectSeq(list, LAMBDA q : q.exchange # s_coingecko_average)

\* the request of a token was answered with a body that has a pairs array
Answered(r) == r.response.ok /\ r.response.hasPairs

\* the quotes the answered requests give, in the order of the requests
RECURSIVE AnsweredQuotes(_, _)
AnsweredQuotes(responses, cfg) ==
  IF responses = <<>> THEN <<>>
  ELSE (IF Answered(Head(responses))
          THEN fetchDEXScreenerData(Head(responses).token,
                                    Head(responses).response, cfg)
          ELSE <<>>)
       \o AnsweredQuotes(Tail(responses), cfg)

\* the CoinGecko adapter failed: the request was rejected or rate-limited
CoinGeckoFailed(response) == ~response.ok \/ response = RateLimitBody

\* C18 as stated: the list a 'collect prices' command gets from
\* collectPriceData holds nothing of CoinGecko when the CoinGecko adapter
\* failed and its quotes when it did not, and the quotes of exactly the
\* assets whose DEXScreener request was answered.
C18_AsStated ==
  pc \in {"done", "error"} =>
    /\ FromCoinGecko(priceData) =
         (IF CoinGeckoFailed(cgResponse) THEN <<>>
          ELSE getCoinGeckoPrices(cgResponse))
    /\ FromDex(priceData) = AnsweredQuotes(dexResponses, config)
    /\ Len(priceData) = Len(FromCoinGecko(priceData)) + Len(FromDex(priceData))

\* What holds of C18: the same with the rate-limit body read as an answer,
\* so that its key "status" is quoted at price 0; a rejected request and a
\* failed or malformed DEXScreener request contribute nothing and take
\* nothing away from the rest.
C18_FailureIsolation ==
  pc \in {"done", "error"} =>
       /\ FromCoinGecko(priceData) =
            (IF cgResponse.ok THEN getCoinGeckoPrices(cgResponse) ELSE <<>>)
       /\ FromDex(priceData) = AnsweredQuotes(dexResponses, config)
       /\ Len(priceData) = Len(FromCoinGecko(priceData)) + Len(FromDex(priceData))

\* the CoinGecko request and the ethereum request failed, and the two
\* quotes of the bitcoin request were collected
C18_Witness ==
  /\ pc = "done"
  /\ ~cgResponse.ok
  /\ ~dexResponses[1].response.ok
  /\ Answered(dexResponses[2])
  /\ Len(priceData) = 2
  /\ \A i \in 1..2 : groupKey(priceData[i]) = <<"w","b","t","c">>

\* the positions of the batch the call is at
CurrentBatch == (dexI + 1)..Min(dexI + batchSize, Len(dexTokens))

\* The states of a call of getDEXPrices: the unsettled requests all belong to the
\* batch the call is at, so that at most batchSize of them are in flight;
\* while the call waits for the delay none is in flight and another batch
\* follows; the requests of a batch are sent in one step (concurrently),
\* only from the start of the call or from the end of a delay, when no
\* request is in flight; the call leaves a batch for the next one only
\* through the delay, and returns from the last batch without a delay,
\* with the results getDEXPrices has as a whole.
C20_BatchInvariant ==
  /\ pending \subseteq CurrentBatch
  /\ Cardinality(pending) <= batchSize
  /\ dexPc = "awaitDelay" => (pending = {} /\ dexI + batchSize < Len(dexTokens))
  /\ dexPc \in {"idle", "returned"} => pending = {}
  /\ dexPc = "returned" =>
       /\ dexI + batchSize >= Len(dexTokens)
       /\ dexPriceData = getDEXPrices(dexTokens, dexResponses, config)

\* The steps of a call of getDEXPrices: requests are sent only by the call and by the end of a
\* delay, with none in flight at that time, and then the whole batch at
\* once; the index moves only at the end of a delay; the call returns only
\* from a batch that has settled, not from a delay.
C20_BatchSteps ==
  [][/\ (pending' \ pending # {}) =>
          /\ pending = {}
          /\ dexPc \in {"idle", "awaitDelay"}
          /\ pending' = batchRequests(dexTokens', dexI')
     /\ (dexI' # dexI /\ dexPc # "idle") =>
          (dexPc = "awaitDelay" /\ dexI' = dexI + batchSize)
     /\ (dexPc' = "returned" /\ dexPc # "returned" /\ dexPc # "idle") =>
          (dexPc = "awaitBatch" /\ pending = {})
    ]_vars

\* C20: a call of getDEXPrices sends its requests in batches of batchSize,
\* a whole batch at once; at most batchSize requests are in flight; no
\* request of the next batch is sent before every request of the batch has
\* settled and the delay has elapsed; the delay is taken between two
\* batches and not after the last one.
C20_Batches == []C20_BatchInvariant /\ C20_BatchSteps

\* a call with eleven tokens is in its third batch, the request of which is
\* in flight
C20_Witness ==
  /\ dexPc = "awaitBatch"
  /\ Len(dexTokens) = 11
  /\ dexI = 10
  /\ pending = {11}

(***************************************************************************)
(* Properties of the filter of the pairs of one response                   *)
(***************************************************************************)
\* the pairs returned for ethereum
ReturnedPairs == dexResponses[1].response.pairs

\* the pair has a price above 0 and a liquidity above the minimum
Liquid(pair) ==
  /\ pair.priceUsd # <<>>
  /\ ~parseFloat(pair.priceUsd).nan
  /\ parseFloat(pair.priceUsd).v > 0
  /\ pair.liquidity > config.DEXSCREENER_MIN_LIQUIDITY

LiquidPositions == {i \in 1..Len(ReturnedPairs) : Liquid(ReturnedPairs[i])}

\* the quote is the one of the pair
QuoteOfPair(quote, pair) ==
  /\ quote.exchange = pair.dexId
  /\ quote.price = parseFloat(pair.priceUsd).v
  /\ quote.volume = pair.h24

\* the number of quotes of the list that are the one of the pair
QuotesFrom(quotes, pair) ==
  Cardinality({i \in 1..Len(quotes) : QuoteOfPair(quotes[i], pair)})

\* the number of returned pairs equal to the pair
Copies(pair) ==
  Cardinality({j \in 1..Len(ReturnedPairs) : ReturnedPairs[j] = pair})

\* C21: the quotes the DEX adapter returns for an asset are those of pairs
\* with priceUsd > 0 and a liquidity strictly above
\* DEXSCREENER_MIN_LIQUIDITY, one quote for a pair at most; there are five
\* of them, or as many as such pairs if these are fewer, hence at most five
\* of any venue; and no pair left out has more liquidity than a pair kept,
\* on the same venue or on another.
C21_VenueFilter ==
  pc \in {"done", "error"} =>
    /\ Len(priceData) = Min(5, Cardinality(LiquidPositions))
    /\ \A i \in 1..Len(priceData) :
         \E k \in LiquidPositions : QuoteOfPair(priceData[i], ReturnedPairs[k])
    /\ \A k \in LiquidPositions :
         /\ QuotesFrom(priceData, ReturnedPairs[k]) <= Copies(ReturnedPairs[k])
         /\ QuotesFrom(priceData, ReturnedPairs[k]) < Copies(ReturnedPairs[k]) =>
              \A j \in LiquidPositions :
                QuotesFrom(priceData, ReturnedPairs[j]) > 0 =>
                  ReturnedPairs[k].liquidity <= ReturnedPairs[j].liquidity
    /\ \A venue \in {ReturnedPairs[k].dexId : k \in LiquidPositions} :
         Cardinality({i \in 1..Len(priceData) : priceData[i].exchange = venue}) <= 5

\* six pairs pass the filter, the second of them with less liquidity than
\* the others, and it is the one left out; a pair with the price 0 and a
\* pair at the minimum liquidity are among those returned in other states
C21_Witness ==
  /\ pc = "done"
  /\ Len(ReturnedPairs) = 6
  /\ Cardinality(LiquidPositions) = 6
  /\ ReturnedPairs[2].liquidity = 50000
  /\ \A i \in {1, 3, 4, 5, 6} : ReturnedPairs[i].liquidity = 80000
  /\ Len(priceData) = 5
  /\ \A i \in 1..5 : priceData[i].exchange = s_sushiswap

\* of six returned pairs one has the price 0 and one the minimum
\* liquidity, and the quotes are those of the four others
C21_WitnessRejected ==
  /\ pc = "done"
  /\ Len(ReturnedPairs) = 6
  /\ Cardinality(LiquidPositions) = 4
  /\ \E i, j \in 1..6 :
       /\ ReturnedPairs[i].priceUsd = <<"0">>
       /\ ReturnedPairs[j].liquidity = config.DEXSCREENER_MIN_LIQUIDITY
  /\ Len(priceData) = 4

(***************************************************************************)
(* Properties of the published list under overlapping passes               *)
(***************************************************************************)
\* the tokens a pass of the kind collects
TokensOfPass(kind) == IF kind = "command" THEN collectTokens ELSE monitoredTokens

\* what collectPriceData may return to a pass of the kind
CollectedBy(kind) ==
  {collectPriceData(TokensOfPass(kind), NoCoinGecko, dex, config) :
     dex \in LoopDexResponses}

\* the published list is [] as at start-up, or it is the whole output of the
\* analysis of what collectPriceData returned to the one pass that assigned
\* it last
C22_OnePass ==
  IF lastWrite = NoPass
    THEN currentOpportunities = <<>>
    ELSE /\ lastWrite.from \in CollectedBy(lastWrite.kind)
         /\ currentOpportunities =
              analyzeArbitrageOpportunities(lastWrite.from, config)

\* the published list changes only in the step in which a pass in flight
\* ends, and then to the output of that pass
C22_Steps ==
  [][currentOpportunities' # currentOpportunities =>
       /\ \E pass \in inFlight \ inFlight' :
            /\ inFlight' = inFlight \ {pass}
            /\ lastWrite'.id = pass.id
            /\ lastWrite'.kind = pass.kind
       /\ currentOpportunities' =
            analyzeArbitrageOpportunities(lastWrite'.from, config)
    ]_vars

\* C22: currentOpportunities is only replaced as a whole, by the complete
\* result of one finished pass (monitoring cycle or 'collect prices'); in
\* every reachable state, with cycles, commands and timers interleaved in
\* any order, it is empty or the output of a single pass.
C22_WholeReplacement == []C22_OnePass /\ C22_Steps

\* a command has replaced the non-empty list of another pass by its own
\* list while a third pass is in flight
C22_Witness ==
  /\ lastWrite.kind = "command"
  /\ lastWrite.id = 2
  /\ Len(currentOpportunities) = 1
  /\ currentOpportunities[1].token = <<"W","B","T","C">>
  /\ \E p \in inFlight : p.id = 3 /\ p.kind = "interval"

(***************************************************************************)
(* Properties of the commands that start and stop the monitoring           *)
(***************************************************************************)
\* the passes of runMonitoring that begin in the step
CyclesBegun == {p \in inFlight' \ inFlight : p.kind \in {"loopStart", "interval"}}

\* C23: while monitoring is switched off no pass of runMonitoring begins to
\* collect, except in the step of a 'start monitoring' command that
\* switches it on; a timer that fires while it is off changes nothing; and
\* the 'stop monitoring' command switches monitoring off in its own step,
\* whatever is in flight, and leaves the passes in flight as they are.
C23_StopPreventsCycles ==
  [][/\ CyclesBegun # {} =>
          /\ monitoringActive'
          /\ monitoringActive \/ handleChatStartMonitoring
     /\ (intervalFires /\ ~monitoringActive) => UNCHANGED vars
     /\ handleChatStopMonitoring =>
          /\ ~monitoringActive'
          /\ ~arbitrageMonitoring'
          /\ inFlight' = inFlight
    ]_vars

\* monitoring has been stopped by the command while the pass of a timer was
\* in flight: the timer is cleared and the pass still awaits its data
C23_Witness ==
  /\ ~monitoringActive
  /\ monitoringIntervalId = 1
  /\ intervals = {}
  /\ inFlight = {[id |-> 2, kind |-> "interval"]}

\* a timer left by a 'start monitoring' command that switched monitoring
\* off can fire while monitoring is off
C23_WitnessTick ==
  /\ ~monitoringActive
  /\ intervals # {}

\* C26 as stated: a pass of runMonitoring assigns currentOpportunities only
\* while monitoring is switched on; a pass that was in flight when
\* monitoring was stopped does not assign it when it ends.
C26_AsStated ==
  [][(lastWrite' # lastWrite /\ lastWrite'.kind \in {"loopStart", "interval"})
       => monitoringActive]_vars

\* monitoring is off, is not switched on again, and the pass started by the
\* loop has replaced the list of the command
C26_WriteAfterStop ==
  /\ ~monitoringActive
  /\ passCount = 2
  /\ inFlight = {}
  /\ lastWrite.id = 1
  /\ lastWrite.kind = "loopStart"
  /\ currentOpportunities # <<>>

\* C27 as stated: at most one timer created by startMonitoringLoop is
\* live, and none while monitoring is switched off.
C27_AsStated ==
  /\ Cardinality(intervals) <= 1
  /\ ~monitoringActive => intervals = {}

\* two timers are live: a 'start monitoring' command has switched
\* monitoring off without clearing the first, and the next one has started
\* a second loop
C27_TwoTimers ==
  /\ monitoringActive
  /\ intervals = {1, 2}
  /\ monitoringIntervalId = 2

\* a timer is live while monitoring is off, and the id to clear it with has
\* not been stored before the stop: the loop created the timer after the
\* 'stop monitoring' command
C27_TimerWhileOff ==
  /\ ~monitoringActive
  /\ intervals = {1}
  /\ monitoringIntervalId = 1
  /\ passCount = 1

\* C28 as stated: with the collector constructed a 'start monitoring'
\* command leaves monitoringActive and serviceStatus.arbitrageMonitoring
\* true, whatever they were; a 'stop monitoring' command leaves both
\* false, and changes nothing when monitoring is off.
C28_AsStated ==
  [][/\ (handleChatStartMonitoring /\ arbitrageCollector) =>
          (monitoringActive' /\ arbitrageMonitoring')
     /\ handleChatStopMonitoring =>
          /\ ~monitoringActive' /\ ~arbitrageMonitoring'
          /\ ~monitoringActive => UNCHANGED vars
    ]_vars

\* what holds of the two commands: 'start monitoring' flips the switch, and
\* 'stop monitoring' is as stated; the two flags are equal in every state
C28_StartToggles ==
  [][/\ (handleChatStartMonitoring /\ arbitrageCollector) =>
          /\ monitoringActive' = ~monitoringActive
          /\ arbitrageMonitoring' = monitoringActive'
     /\ (handleChatStartMonitoring /\ ~arbitrageCollector) => UNCHANGED vars
     /\ handleChatStopMonitoring =>
          /\ ~monitoringActive' /\ ~arbitrageMonitoring'
          /\ ~monitoringActive => UNCHANGED vars
     /\ arbitrageMonitoring = monitoringActive
    ]_vars

\* C29 as stated: at most one pass (monitoring cycle or 'collect prices') is
\* in flight at any moment, and a pass never replaces the list published
\* by a pass that started after it.
C29_AsStated ==
  /\ Cardinality(inFlight) <= 1
  /\ \A p \in inFlight : lastWrite.id < p.id

\* the list published is that of the first pass although the second pass,
\* a command, has ended as well
C29_EarlierPassWroteLast ==
  /\ passCount = 2
  /\ inFlight = {}
  /\ lastWrite.id = 1
  /\ currentOpportunities # <<>>

\* the second part of C29 as stated, alone and as a property of steps: the
\* pass that assigns the list has started after the pass that assigned it
\* before
C29_OverwriteAsStated == [][lastWrite'.id >= lastWrite.id]_vars

(***************************************************************************)
(* Properties of the summary of the filter                                 *)
(***************************************************************************)
\* the number of elements of the list that are candidate c
CountIn(list, c) ==
  Cardinality({j \in 1..Len(list) : SameCandidate(list[j], c)})

\* the counts of the result add up to the batch, and every candidate of the
\* batch is in exactly one of the lists accepted and rejected
CountsAddUp(batch, result) ==
  /\ result.summary.total = Len(batch)
  /\ result.summary.accepted = Len(result.accepted)
  /\ result.summary.rejected = Len(result.rejected)
  /\ result.summary.accepted + result.summary.rejected = result.summary.total
  /\ \A i \in 1..Len(batch) :
       CountIn(result.accepted, batch[i]) + CountIn(result.rejected, batch[i]) = 1

\* the efficiency is the percentage of rejected in total, to one decimal,
\* and a number between 0 and 100
IsPercentageRejected(efficiency, result) ==
  /\ RLe(Rat(0, 1), efficiency)
  /\ RLe(efficiency, Rat(100, 1))
  /\ \E tenths \in 0..1000 :
       /\ efficiency = Rat(tenths, 10)
       /\ 2 * Abs(tenths * result.summary.total - 1000 * result.summary.rejected)
            <= result.summary.total

\* C25 as stated: for the batch of candidates of any size that the analysis
\* hands to filterOpportunities, accepted + rejected = total = the size of
\* the batch, every candidate is in exactly one of the two lists, and
\* filterEfficiency is the percentage rejected/total, a number between 0
\* and 100.
C25_AsStated ==
  (pc = "done" /\ config.EMERGENCY_FILTER_ENABLED) =>
    /\ CountsAddUp(Candidates, filterOpportunities(Candidates))
    /\ IsPercentageRejected(filterOpportunities(Candidates).summary.filterEfficiency,
                            filterOpportunities(Candidates))

\* what holds instead: the counts add up for every batch, the efficiency is
\* the percentage for every batch that is not empty, and it is NaN for the
\* empty batch
C25_SummaryOfBatch ==
  (pc = "done" /\ config.EMERGENCY_FILTER_ENABLED) =>
    /\ CountsAddUp(Candidates, filterOpportunities(Candidates))
    /\ IF Candidates = <<>>
         THEN IsNaN(filterOpportunities(Candidates).summary.filterEfficiency)
         ELSE IsPercentageRejected(
                filterOpportunities(Candidates).summary.filterEfficiency,
                filterOpportunities(Candidates))

\* a batch of three candidates of which two are rejected: 66.7
C25_TwoOfThree ==
  /\ pc = "done"
  /\ config.EMERGENCY_FILTER_ENABLED
  /\ Len(Candidates) = 3
  /\ filterOpportunities(Candidates).summary.rejected = 2
  /\ filterOpportunities(Candidates).summary.filterEfficiency = Rat(667, 10)

\* the empty batch
C25_EmptyBatch ==
  /\ pc = "done"
  /\ config.EMERGENCY_FILTER_ENABLED
  /\ Candidates = <<>>
  /\ IsNaN(filterOpportunities(Candidates).summary.filterEfficiency)

(***************************************************************************)
(* Properties of the profit bands of the score                             *)
(***************************************************************************)
\* the band of profit percentages with the full profit score of the class
InBand(o) ==
  IF ClassOf(o.token) \in {"major-crypto", "bitcoin-pegged"}
    THEN RGe(o.profitPercentage, Rat(1, 1)) /\ RLe(o.profitPercentage, Rat(10, 1))
    ELSE RGe(o.profitPercentage, Rat(2, 1)) /\ RLe(o.profitPercentage, Rat(15, 1))

\* C30: with the filter enabled every published opportunity of an asset
\* that is not of the class stablecoin has its profitPercentage in the band
\* of its class, 1 to 10 for major-crypto and bitcoin-pegged and 2 to 15
\* for every other class and for symbols without a class; a candidate
\* outside the band is not accepted even when its profit is below the
\* ceiling of its class and both venues have the highest reliability.
C30_AcceptedInBand ==
  config.EMERGENCY_FILTER_ENABLED =>
    /\ \A i \in 1..Len(currentOpportunities) :
         ClassOf(currentOpportunities[i].token) # "stablecoin" =>
           InBand(currentOpportunities[i])
    /\ pc = "done" =>
         \A i \in 1..Len(Candidates) :
           (ClassOf(Candidates[i].token) # "stablecoin" /\ ~InBand(Candidates[i])) =>
             ~validateOpportunity(Candidates[i]).isValid

\* dogecoin, a symbol without a class, is published at 5% between the
\* venue coingecko and the CoinGecko average
C30_Witness ==
  /\ pc = "done"
  /\ Len(currentOpportunities) = 1
  /\ ClassOf(currentOpportunities[1].token) = "unmapped"
  /\ currentOpportunities[1].profitPercentage = Rat(5, 1)
  /\ InBand(currentOpportunities[1])

\* a candidate above the band and below the ceiling of its class, between
\* two venues of reliability 15, is not published
C30_AboveBandHeldBack ==
  /\ pc = "done"
  /\ Len(Candidates) = 1
  /\ ClassOf(Candidates[1].token) = "major-crypto"
  /\ RGt(Candidates[1].profitPercentage, Rat(10, 1))
  /\ ~OverCeiling(Candidates[1])
  /\ FailedChecks(Candidates[1]) = {}
  /\ ReliabilitySum(Candidates[1]) = 30
  /\ currentOpportunities = <<>>

\* a candidate below the band, of 0.8%, is not published either
C30_BelowBandHeldBack ==
  /\ pc = "done"
  /\ Len(Candidates) = 1
  /\ ClassOf(Candidates[1].token) = "major-crypto"
  /\ RLt(Candidates[1].profitPercentage, Rat(1, 1))
  /\ FailedChecks(Candidates[1]) = {}
  /\ currentOpportunities = <<>>

(***************************************************************************)
(* Termination of a call of getDEXPrices                                   *)
(***************************************************************************)
\* C24 as stated: a call of getDEXPrices that has sent requests returns,
\* whatever becomes of the requests, so that collectPriceData returns and
\* the cycle ends.
C24_AsStated == (dexPc \in {"awaitBatch", "awaitDelay"}) ~> (dexPc = "returned")

\* what holds instead: the call returns unless the response of a request
\* is cut; a request that stays idle is ended by the timeout
C24_ReturnsUnlessCut == ([](cut = {})) => C24_AsStated

\* a request cut off by the timeout adds nothing to the results: the batch
\* with the request of dai, the only one that returns a pair, adds its
\* quote when the request was answered and none when it timed out
C24_TimeoutAddsNothing ==
  [][(dexPc = "awaitBatch" /\ dexPc' # "awaitBatch") =>
       Len(dexPriceData') =
         Len(dexPriceData)
           + (IF dexI = batchSize /\ (batchSize + 1) \notin timedOut THEN 1 ELSE 0)
    ]_vars

\* the call waits for a batch all of whose other requests have settled and
\* one of whose responses was cut
C24_Stuck ==
  /\ dexPc = "awaitBatch"
  /\ pending = cut
  /\ Cardinality(cut) = 1

====
